---- MODULE Spec2Model ----
(***************************************************************************)
(* A model of swrkit's request/response pipeline: the provider's ordered   *)
(* transform lists (provider.tsx) and one Fetcher call built by            *)
(* createFetcher (utils.ts) with its request transforms, transport call,   *)
(* response normalisation, response transforms, monitors and the typed     *)
(* error of errors.ts.                                                     *)
(***************************************************************************)
EXTENDS Integers, Sequences, FiniteSets, TLC

(***************************************************************************)
(* Bounds of the model.                                                    *)
(***************************************************************************)
MaxConfigured == 1      \* user request transforms given in the provider config
MaxAdded == 1           \* addRequestTransform calls
MaxRespTransforms == 2  \* configured response transforms
MaxMonitors == 2        \* configured monitors

UserTransforms == {"A", "B"}
RespTransformNames == <<"R1", "R2", "R3", "R4">>
MonitorNames == <<"M1", "M2", "M3", "M4">>
\* transport statuses: a 2xx status, a status that is neither 2xx nor an
\* error class, and both ends of the 4xx and 5xx ranges
Statuses == {200, 304, 400, 499, 500, 599}
Bodies == {"b1", "b2"}
\* what an error thrown by user code or by the transport indicates
CauseKinds == {"plain", "timeout", "abort", "connection", "network"}
Behaviours == {"ok", "throw"}

Null == "null"
Undefined == "undefined"
None == <<>>
Some(x) == <<x>>
NoResp == [none |-> TRUE]
NoError == [none |-> TRUE]

SeqsUpTo(S, n) == UNION {[1..m -> S] : m \in 0..n}

(***************************************************************************)
(* PROBLEM_CODE and classifyProblem of @mshindi-labs/refetch.              *)
(***************************************************************************)
classifyProblem(status, cause) ==
  IF status = None
    THEN CASE cause = "timeout"    -> "TIMEOUT_ERROR"
           [] cause = "abort"      -> "CANCEL_ERROR"
           [] cause = "connection" -> "CONNECTION_ERROR"
           [] cause = "network"    -> "NETWORK_ERROR"
           [] OTHER                -> "UNKNOWN_ERROR"
    ELSE CASE status[1] >= 400 /\ status[1] < 500 -> "CLIENT_ERROR"
           [] status[1] >= 500 /\ status[1] < 600 -> "SERVER_ERROR"
           [] OTHER                               -> "UNKNOWN_ERROR"

\* Response.ok of the platform's fetch
ResponseOk(status) == status >= 200 /\ status < 300

(***************************************************************************)
(* utils.ts: normalizeResponse, normalizeErrorResponse                     *)
(***************************************************************************)
\* an Error as seen through originalError: its class name and what it indicates
ErrorInfo(name, cause) == [name |-> name, cause |-> cause]

normalizeResponse(data, status) ==
  IF ResponseOk(status)
    THEN [ok |-> TRUE, problem |-> Null, originalError |-> NoError,
          data |-> data, status |-> Some(status), headers |-> TRUE,
          log |-> <<>>]
    ELSE [ok |-> FALSE, problem |-> classifyProblem(Some(status), "plain"),
          originalError |-> ErrorInfo("Error", "plain"),
          data |-> data, status |-> Some(status), headers |-> TRUE,
          log |-> <<>>]

\* normalizeErrorResponse leaving problem unset
normalizeErrorResponse_NullProblem(error) ==
  [ok |-> FALSE, problem |-> Null,
   originalError |-> ErrorInfo(error.name, error.cause),
   data |-> Undefined, status |-> None, headers |-> FALSE,
   log |-> <<>>]

\* createFetcher always calls it with response = undefined
normalizeErrorResponse(error) ==
  [ok |-> FALSE, problem |-> classifyProblem(None, error.cause),
   originalError |-> ErrorInfo(error.name, error.cause),
   data |-> Undefined, status |-> None, headers |-> FALSE,
   log |-> <<>>]

(***************************************************************************)
(* errors.ts: SWRKitError and createErrorFromResponse                      *)
(***************************************************************************)
\* a raw Error thrown by a transform, the transport or the body parser
RawError(cause) ==
  [typed |-> FALSE, name |-> "Error", cause |-> cause]

SWRKitError(name, problem, response) ==
  [typed |-> TRUE, name |-> name, cause |-> "plain",
   problem |-> problem, status |-> response.status, response |-> response]

\* createErrorFromResponse without the CANCEL_ERROR case
createErrorFromResponse_NoCancel(response) ==
  CASE response.problem = "CLIENT_ERROR" ->
         SWRKitError("SWRKitClientError", "CLIENT_ERROR", response)
    [] response.problem = "SERVER_ERROR" ->
         SWRKitError("SWRKitServerError", "SERVER_ERROR", response)
    [] response.problem = "NETWORK_ERROR" ->
         SWRKitError("SWRKitNetworkError", "NETWORK_ERROR", response)
    [] response.problem = "CONNECTION_ERROR" ->
         SWRKitError("SWRKitConnectionError", "CONNECTION_ERROR", response)
    [] response.problem = "TIMEOUT_ERROR" ->
         SWRKitError("SWRKitTimeoutError", "TIMEOUT_ERROR", response)
    [] OTHER ->
         SWRKitError("SWRKitError", "UNKNOWN_ERROR", response)

createErrorFromResponse(response) ==
  CASE response.problem = "CLIENT_ERROR" ->
         SWRKitError("SWRKitClientError", "CLIENT_ERROR", response)
    [] response.problem = "SERVER_ERROR" ->
         SWRKitError("SWRKitServerError", "SERVER_ERROR", response)
    [] response.problem = "NETWORK_ERROR" ->
         SWRKitError("SWRKitNetworkError", "NETWORK_ERROR", response)
    [] response.problem = "CONNECTION_ERROR" ->
         SWRKitError("SWRKitConnectionError", "CONNECTION_ERROR", response)
    [] response.problem = "TIMEOUT_ERROR" ->
         SWRKitError("SWRKitTimeoutError", "TIMEOUT_ERROR", response)
    [] response.problem = "CANCEL_ERROR" ->
         SWRKitError("SWRKitCancelError", "CANCEL_ERROR", response)
    [] OTHER ->
         SWRKitError("SWRKitError", "UNKNOWN_ERROR", response)

(***************************************************************************)
(* State.                                                                  *)
(*   requestTransforms, responseTransforms, monitors: the provider's       *)
(*     config lists (React state of SWRKitProvider)                        *)
(*   configured: userConfig.requestTransforms; added: the transforms       *)
(*     passed to addRequestTransform so far, in call order                 *)
(*   fetcher: the three lists closed over by the fetcher of the call       *)
(*   pc, pass: position of the call; pass 1 is the try block of fetcher,   *)
(*     pass 2 its catch block                                              *)
(*   config: the call's request config (log: names of the transforms that  *)
(*     have mutated it); resp: swrKitResponse (log: likewise)              *)
(*   k, inflight: next list position of the running for-loop, and the      *)
(*     positions whose promise is pending (0 is the transport call)        *)
(*   transport: what the transport call produced                           *)
(*   thrown: position and cause of the request transform that threw        *)
(*   notified: monitor invocations of the call; lastNotify: last           *)
(*     notifyMonitors call; events: trace of the call's steps              *)
(*   result: how the promise returned by fetcher settled                   *)
(*   util: the last call of one of the pure helpers (authTransform,        *)
(*     fetchConfig, mergeConfigs, buildCacheKey, extractUrlFromKey): its   *)
(*     name, arguments and result                                          *)
(*   mutationOptions: the options of one useMutation instance                     *)
(*   cache: the value the cache holds under the mutation's key (its url)   *)
(*   marked: the keys marked for revalidation since the trigger call       *)
(*   invalidating: the keys whose globalMutate(k) promise is pending       *)
(*   mpc, trig: position of the trigger call and what it holds (variables, *)
(*     override, request sent, pre-optimistic value, whether another write *)
(*     landed while it ran, useSWRMutation's isMutating, outcome of the    *)
(*     fetcher, error)                                                     *)
(*   calls: invocations of the user's onSuccess and onError                *)
(*   triggerResult: how the promise returned by trigger settled            *)
(*   external: imperative mutate(key, data) calls on the mutation's key    *)
(*   retry: a request under retryMiddleware: the options, the status of    *)
(*     its error, the retry count and the revalidations scheduled          *)
(*   mock: a fetcher of createFailingMockFetcher: failAfter, requestCount  *)
(*     and its invocations                                                 *)
(*   storage: a hook under localStorageMiddleware: the options, the clock, *)
(*     the stored entry and what the hook has supplied and written         *)
(*   infinite: a useInfiniteScroll instance: pageSize, size, the pages and *)
(*     isValidating                                                        *)
(***************************************************************************)
VARIABLES requestTransforms, responseTransforms, monitors, configured, added,
          fetcher, pc, pass, config, resp, k, inflight, transport, thrown,
          notified, lastNotify, events, result, util,
          mutationOptions, cache, marked, invalidating, mpc, trig, calls,
          triggerResult, external, retry, mock, storage, infinite

provider == <<requestTransforms, responseTransforms, monitors, configured, added>>
call == <<fetcher, pc, pass, config, resp, k, inflight, transport, thrown,
          notified, lastNotify, events, result>>
mutation == <<mutationOptions, cache, marked, invalidating, mpc, trig, calls,
              triggerResult, external>>
hooks == <<retry, mock, storage, infinite>>
vars == <<provider, call, util, mutation, hooks>>

NoFetcher == [req |-> <<>>, resp |-> <<>>, mon |-> <<>>]
NoTransport == [kind |-> "none"]
NoThrown == [at |-> 0, cause |-> "none"]
NoNotify == [pass |-> 0]
Pending == [kind |-> "pending"]
NoUtil == [op |-> "none"]
EmptyConfig == [log |-> <<>>]
NoTrigger == [kind |-> "none"]
NoExternal == [count |-> 0]
NoOutcome == [kind |-> "none"]

\* cached values of the mutation's key
Post(liked, likes) == [liked |-> liked, likes |-> likes]
InitialPost == Post(FALSE, 5)

\* the defaults of useMutation's options, no keys to invalidate, no request
\* config
DefaultOptions ==
  [optimisticData |-> FALSE, populateCache |-> FALSE, rollbackOnError |-> TRUE,
   revalidate |-> TRUE, throwOnError |-> TRUE, invalidateKeys |-> <<>>,
   request |-> [kind |-> "absent"]]

\* no trigger call is running
IdleTrigger ==
  /\ marked = {}
  /\ invalidating = {}
  /\ mpc = "idle"
  /\ trig = NoTrigger
  /\ calls = <<>>
  /\ triggerResult = Pending

\* a useMutation instance with the default options that is never triggered
IdleMutation ==
  /\ mutationOptions = DefaultOptions
  /\ cache = InitialPost
  /\ external = NoExternal
  /\ IdleTrigger

\* no retryMiddleware, mock fetcher, localStorageMiddleware or
\* useInfiniteScroll is in use
NoHook == [pc |-> "none"]
IdleHooks ==
  /\ retry = NoHook
  /\ mock = NoHook
  /\ storage = NoHook
  /\ infinite = NoHook

\* the rank of a phase in the order request, transport, response, monitor
PhaseRank(phase) ==
  CASE phase = "request"   -> 1
    [] phase = "transport" -> 2
    [] phase = "response"  -> 3
    [] phase = "monitor"   -> 4

Event(kind, phase, name) == <<kind, phase, name, pass>>

(***************************************************************************)
(* provider.tsx: initial config and addRequestTransform                    *)
(***************************************************************************)
InitialRequestTransforms(userTransforms) == <<"auth">> \o userTransforms

\* addRequestTransform putting the new transform in front
addRequestTransform_Prepend(prev, transform) == <<transform>> \o prev

addRequestTransform(prev, transform) == Append(prev, transform)

Init ==
  /\ configured \in SeqsUpTo(UserTransforms, MaxConfigured)
  /\ requestTransforms = InitialRequestTransforms(configured)
  /\ \E n \in 0..MaxRespTransforms :
       responseTransforms = SubSeq(RespTransformNames, 1, n)
  /\ \E n \in 0..MaxMonitors : monitors = SubSeq(MonitorNames, 1, n)
  /\ added = <<>>
  /\ fetcher = NoFetcher
  /\ pc = "idle"
  /\ pass = 1
  /\ config = EmptyConfig
  /\ resp = NoResp
  /\ k = 1
  /\ inflight = {}
  /\ transport = NoTransport
  /\ thrown = NoThrown
  /\ notified = <<>>
  /\ lastNotify = NoNotify
  /\ events = <<>>
  /\ result = Pending
  /\ util = NoUtil
  /\ IdleMutation
  /\ IdleHooks

AddRequestTransform ==
  /\ Len(added) < MaxAdded
  /\ \E t \in UserTransforms :
       /\ requestTransforms' = addRequestTransform(requestTransforms, t)
       /\ added' = Append(added, t)
  /\ UNCHANGED <<hooks, mutation, util, responseTransforms, monitors, configured, call>>

(***************************************************************************)
(* utils.ts: applyRequestTransforms, applyResponseTransforms               *)
(***************************************************************************)
\* for (const transform of transforms): the transform at position i
TransformAt(transforms, i) == transforms[i]

\* the loop calling the next transform without awaiting the previous one
CanStartNext_NoAwait(pending) == TRUE

\* await transform(...): the next transform starts when none is pending
CanStartNext(pending) == pending = {}

\* a transform mutates the object it is given
Mutate(obj, name) == [obj EXCEPT !.log = Append(@, name)]

\* the phase that follows the request transforms / the response transforms
AfterRequest == "transport"
AfterNormalize(f) == IF Len(f.resp) > 0 THEN "response" ELSE "notify"

\* entering the catch block of fetcher with the thrown value
EnterCatch(error) ==
  /\ resp' = normalizeErrorResponse(error)
  /\ pass' = 2
  /\ k' = 1
  /\ inflight' = {}
  /\ pc' = AfterNormalize(fetcher)

StartCall ==
  /\ pc = "idle"
  /\ fetcher' = [req |-> requestTransforms, resp |-> responseTransforms,
                 mon |-> monitors]
  /\ pc' = IF Len(requestTransforms) > 0 THEN "request" ELSE AfterRequest
  /\ pass' = 1
  /\ config' = EmptyConfig
  /\ resp' = NoResp
  /\ k' = 1
  /\ inflight' = {}
  /\ transport' = NoTransport
  /\ thrown' = NoThrown
  /\ notified' = <<>>
  /\ lastNotify' = NoNotify
  /\ events' = <<>>
  /\ result' = Pending
  /\ UNCHANGED <<hooks, mutation, util, provider>>

RequestTransformStart ==
  /\ pc = "request"
  /\ k <= Len(fetcher.req)
  /\ CanStartNext(inflight)
  /\ inflight' = inflight \cup {k}
  /\ k' = k + 1
  /\ events' = Append(events,
                 Event("start", "request", TransformAt(fetcher.req, k)))
  /\ UNCHANGED <<hooks, mutation, util, provider, fetcher, pc, pass, config, resp, transport, thrown,
                 notified, lastNotify, result>>

RequestTransformReturn ==
  /\ pc = "request"
  /\ \E i \in inflight :
       /\ config' = Mutate(config, TransformAt(fetcher.req, i))
       /\ inflight' = inflight \ {i}
       /\ events' = Append(events,
                      Event("end", "request", TransformAt(fetcher.req, i)))
       /\ pc' = IF k > Len(fetcher.req) /\ inflight' = {}
                  THEN AfterRequest ELSE "request"
  /\ UNCHANGED <<hooks, mutation, util, provider, fetcher, pass, resp, k, transport, thrown,
                 notified, lastNotify, result>>

RequestTransformThrow ==
  /\ pc = "request"
  /\ \E i \in inflight, c \in CauseKinds :
       /\ thrown' = [at |-> i, cause |-> c]
       /\ events' = Append(events,
                      Event("throw", "request", TransformAt(fetcher.req, i)))
       /\ EnterCatch(RawError(c))
  /\ UNCHANGED <<hooks, mutation, util, provider, fetcher, config, transport, notified, lastNotify,
                 result>>

(***************************************************************************)
(* utils.ts: createFetcher, the transport call                             *)
(***************************************************************************)
TransportIssue ==
  /\ pc = "transport"
  /\ inflight = {}
  /\ inflight' = {0}
  /\ events' = Append(events, Event("start", "transport", "fetch"))
  /\ UNCHANGED <<hooks, mutation, util, provider, fetcher, pc, pass, config, resp, k, transport,
                 thrown, notified, lastNotify, result>>

TransportRespond ==
  /\ pc = "transport"
  /\ inflight = {0}
  /\ \E s \in Statuses, b \in Bodies :
       /\ transport' = [kind |-> "response", status |-> s, data |-> b]
       /\ resp' = normalizeResponse(b, s)
  /\ inflight' = {}
  /\ k' = 1
  /\ pc' = AfterNormalize(fetcher)
  /\ events' = Append(events, Event("end", "transport", "fetch"))
  /\ UNCHANGED <<hooks, mutation, util, provider, fetcher, pass, config, thrown, notified,
                 lastNotify, result>>

TransportThrow ==
  /\ pc = "transport"
  /\ inflight = {0}
  /\ \E c \in CauseKinds :
       /\ transport' = [kind |-> "error", cause |-> c]
       /\ EnterCatch(RawError(c))
  /\ events' = Append(events, Event("throw", "transport", "fetch"))
  /\ UNCHANGED <<hooks, mutation, util, provider, fetcher, config, thrown, notified, lastNotify,
                 result>>

(***************************************************************************)
(* utils.ts: createFetcher, response transforms of the try and the catch   *)
(* block                                                                   *)
(***************************************************************************)
ResponseTransformStart ==
  /\ pc = "response"
  /\ k <= Len(fetcher.resp)
  /\ CanStartNext(inflight)
  /\ inflight' = inflight \cup {k}
  /\ k' = k + 1
  /\ events' = Append(events,
                 Event("start", "response", TransformAt(fetcher.resp, k)))
  /\ UNCHANGED <<hooks, mutation, util, provider, fetcher, pc, pass, config, resp, transport, thrown,
                 notified, lastNotify, result>>

ResponseTransformReturn ==
  /\ pc = "response"
  /\ \E i \in inflight :
       /\ resp' = Mutate(resp, TransformAt(fetcher.resp, i))
       /\ inflight' = inflight \ {i}
       /\ events' = Append(events,
                      Event("end", "response", TransformAt(fetcher.resp, i)))
       /\ pc' = IF k > Len(fetcher.resp) /\ inflight' = {}
                  THEN "notify" ELSE "response"
  /\ UNCHANGED <<hooks, mutation, util, provider, fetcher, pass, config, k, transport, thrown,
                 notified, lastNotify, result>>

\* a response transform throws inside the try block: the catch block runs
ResponseTransformThrowInTry ==
  /\ pc = "response"
  /\ pass = 1
  /\ \E i \in inflight, c \in CauseKinds :
       /\ events' = Append(events,
                      Event("throw", "response", TransformAt(fetcher.resp, i)))
       /\ EnterCatch(RawError(c))
  /\ UNCHANGED <<hooks, mutation, util, provider, fetcher, config, transport, thrown, notified,
                 lastNotify, result>>

\* a response transform throws inside the catch block: nothing catches it
ResponseTransformThrowInCatch ==
  /\ pc = "response"
  /\ pass = 2
  /\ \E i \in inflight, c \in CauseKinds :
       /\ events' = Append(events,
                      Event("throw", "response", TransformAt(fetcher.resp, i)))
       /\ result' = [kind |-> "rejected", error |-> RawError(c)]
  /\ inflight' = {}
  /\ pc' = "done"
  /\ UNCHANGED <<hooks, mutation, util, provider, fetcher, pass, config, resp, k, transport, thrown,
                 notified, lastNotify>>

(***************************************************************************)
(* utils.ts: notifyMonitors                                                *)
(***************************************************************************)
\* a monitor call without its try/catch
MonitorBoundary_NoCatch(b) == b

\* try { monitor(response) } catch (error) { console.error(...) }: what
\* leaves the try/catch around one monitor call that behaved as b
MonitorBoundary(b) == "ok"

\* monitors.forEach(...): the monitors invoked, in order, and whether an
\* exception leaves the loop
RECURSIVE InvokeFrom(_, _, _)
InvokeFrom(ms, bs, i) ==
  IF i > Len(ms) THEN [invoked |-> <<>>, threw |-> FALSE]
  ELSE IF MonitorBoundary(bs[i]) = "throw"
         THEN [invoked |-> <<ms[i]>>, threw |-> TRUE]
         ELSE LET rest == InvokeFrom(ms, bs, i + 1)
              IN  [invoked |-> <<ms[i]>> \o rest.invoked, threw |-> rest.threw]

notifyMonitors(ms, bs) == InvokeFrom(ms, bs, 1)

Notification(response, names, i) ==
  [monitor |-> names[i], response |-> response, pass |-> pass]

Notify ==
  /\ pc = "notify"
  /\ \E bs \in [1..Len(fetcher.mon) -> Behaviours] :
       LET out == notifyMonitors(fetcher.mon, bs)
           seen == [i \in 1..Len(out.invoked) |->
                      Notification(resp, out.invoked, i)]
       IN  /\ notified' = notified \o seen
           /\ lastNotify' = [pass |-> pass, response |-> resp,
                             invoked |-> out.invoked, behaviours |-> bs]
           /\ events' = events \o
                          [i \in 1..Len(out.invoked) |->
                             Event("notify", "monitor", out.invoked[i])]
           /\ IF ~out.threw
                THEN /\ pc' = "settle"
                     /\ UNCHANGED <<resp, pass, k, inflight, result>>
                ELSE IF pass = 1
                  THEN /\ EnterCatch(RawError("plain"))
                       /\ UNCHANGED result
                  ELSE /\ result' = [kind |-> "rejected",
                                     error |-> RawError("plain")]
                       /\ pc' = "done"
                       /\ UNCHANGED <<resp, pass, k, inflight>>
  /\ UNCHANGED <<hooks, mutation, util, provider, fetcher, config, transport, thrown>>

(***************************************************************************)
(* utils.ts: createFetcher, how the call settles                           *)
(***************************************************************************)
\* end of the try block: return the response, or throw the typed error,
\* which the catch block of the same function catches
SettleTry ==
  /\ pc = "settle"
  /\ pass = 1
  /\ IF resp.ok
       THEN /\ result' = [kind |-> "resolved", response |-> resp]
            /\ pc' = "done"
            /\ UNCHANGED <<resp, pass, k, inflight>>
       ELSE /\ EnterCatch(createErrorFromResponse(resp))
            /\ UNCHANGED result
  /\ UNCHANGED <<hooks, mutation, util, provider, fetcher, config, transport, thrown, notified,
                 lastNotify, events>>

\* end of the catch block: throw the typed error
SettleCatch ==
  /\ pc = "settle"
  /\ pass = 2
  /\ result' = [kind |-> "rejected", error |-> createErrorFromResponse(resp)]
  /\ pc' = "done"
  /\ UNCHANGED <<hooks, mutation, util, provider, fetcher, pass, config, resp, k, inflight,
                 transport, thrown, notified, lastNotify, events>>

\* the caller has taken the result; the fetcher can be called again
Finish ==
  /\ pc = "done"
  /\ pc' = "idle"
  /\ fetcher' = NoFetcher
  /\ pass' = 1
  /\ config' = EmptyConfig
  /\ resp' = NoResp
  /\ k' = 1
  /\ inflight' = {}
  /\ transport' = NoTransport
  /\ thrown' = NoThrown
  /\ notified' = <<>>
  /\ lastNotify' = NoNotify
  /\ events' = <<>>
  /\ result' = Pending
  /\ UNCHANGED <<hooks, mutation, util, provider>>

Next ==
  \/ AddRequestTransform
  \/ StartCall
  \/ RequestTransformStart
  \/ RequestTransformReturn
  \/ RequestTransformThrow
  \/ TransportIssue
  \/ TransportRespond
  \/ TransportThrow
  \/ ResponseTransformStart
  \/ ResponseTransformReturn
  \/ ResponseTransformThrowInTry
  \/ ResponseTransformThrowInCatch
  \/ Notify
  \/ SettleTry
  \/ SettleCatch
  \/ Finish

Spec == Init /\ [][Next]_vars

(***************************************************************************)
(* Properties of the Fetcher call and of the provider's transform list.    *)
(***************************************************************************)
Settled == pc = "done"
Resolved == result.kind = "resolved"
Rejected == result.kind = "rejected"
TypedRejection == Rejected /\ result.error.typed
TransportResponded == transport.kind = "response"
ErrorStatus == TransportResponded /\ transport.status >= 400 /\ transport.status < 600
SomethingThrew == \E i \in 1..Len(events) : events[i][1] = "throw"
IsPrefix(s, t) == Len(s) <= Len(t) /\ s = SubSeq(t, 1, Len(s))
WellFormed(r) == r.ok = (r.problem = Null)

\* C1: every call resolves with an ok=true Response or rejects with a typed
\* error whose .response has ok=false and a non-null problem; it never
\* rejects with a raw error.
C1_TypedOrOk ==
  Settled =>
    \/ Resolved /\ result.response.ok
    \/ /\ TypedRejection
       /\ ~result.error.response.ok
       /\ result.error.response.problem # Null

\* C2: for a transport response with status s in [400,600) and body b, the
\* Response attached to the thrown error has ok=false, status=s, data=b and
\* problem CLIENT_ERROR for 4xx, SERVER_ERROR for 5xx.
C2_ErrorResponseKeepsStatusAndData ==
  (Settled /\ ErrorStatus /\ TypedRejection) =>
    /\ ~result.error.response.ok
    /\ result.error.response.status = Some(transport.status)
    /\ result.error.response.data = transport.data
    /\ result.error.response.problem =
         (IF transport.status < 500 THEN "CLIENT_ERROR" ELSE "SERVER_ERROR")

\* C3: the thrown error is the client-error kind for a status in [400,500)
\* and the server-error kind for a status in [500,600), and its .status is
\* the transport status.
C3_ErrorKindMatchesStatus ==
  (Settled /\ ErrorStatus /\ TypedRejection) =>
    /\ result.error.name =
         (IF transport.status < 500 THEN "SWRKitClientError"
                                    ELSE "SWRKitServerError")
    /\ result.error.problem =
         (IF transport.status < 500 THEN "CLIENT_ERROR" ELSE "SERVER_ERROR")
    /\ result.error.status = Some(transport.status)

\* C4: every Response the Fetcher builds, returns or attaches to a thrown
\* error has ok exactly when problem is null.
C4_ResponseInvariant ==
  /\ resp # NoResp => WellFormed(resp)
  /\ (Settled /\ Resolved) => WellFormed(result.response)
  /\ (Settled /\ TypedRejection) => WellFormed(result.error.response)

C4_Witness ==
  /\ Settled /\ TypedRejection
  /\ TransportResponded /\ ~ResponseOk(transport.status)
  /\ ~result.error.response.ok
  /\ result.error.response.problem # Null

\* C5: when the call settles, every configured response transform has been
\* applied to the normalized Response and every monitor has been notified
\* with it.
C5_TransformsAndMonitorsAlwaysRun ==
  Settled =>
    /\ resp # NoResp
    /\ resp.log = fetcher.resp
    /\ \A i \in 1..Len(fetcher.mon) :
         \E j \in 1..Len(notified) :
           /\ notified[j].monitor = fetcher.mon[i]
           /\ notified[j].response = resp

\* C6: the steps of one call run in the order request transforms, transport,
\* response transforms, monitors, and no two steps overlap.
C6_StrictPhaseSequence ==
  /\ Cardinality(inflight) <= 1
  /\ \A i, j \in 1..Len(events) :
       i < j => PhaseRank(events[i][2]) <= PhaseRank(events[j][2])

\* C7: transforms run in list order, one at a time, each seeing the
\* mutations of all earlier ones.
C7_TransformOrder ==
  /\ Cardinality(inflight) <= 1
  /\ IsPrefix(config.log, fetcher.req)
  /\ resp # NoResp => IsPrefix(resp.log, fetcher.resp)
  /\ pc = "request" => \A i \in inflight : Len(config.log) = i - 1
  /\ pc = "response" => \A i \in inflight : Len(resp.log) = i - 1

C7_Witness ==
  /\ Settled
  /\ Len(fetcher.req) >= 3 /\ config.log = fetcher.req
  /\ Len(fetcher.resp) >= 2 /\ resp.log = fetcher.resp

\* C8: if a request transform throws, no later request transform runs, no
\* transport call is issued and the call rejects with a typed error whose
\* problem is UNKNOWN unless the thrown error is classified more specifically.
C8_RequestTransformThrow ==
  (Settled /\ thrown.at > 0) =>
    /\ Len(config.log) = thrown.at - 1
    /\ transport = NoTransport
    /\ \A i \in 1..Len(events) : events[i][2] # "transport"
    /\ TypedRejection
    /\ result.error.problem =
         (CASE thrown.cause = "timeout"    -> "TIMEOUT_ERROR"
            [] thrown.cause = "abort"      -> "CANCEL_ERROR"
            [] thrown.cause = "connection" -> "CONNECTION_ERROR"
            [] thrown.cause = "network"    -> "NETWORK_ERROR"
            [] OTHER                       -> "UNKNOWN_ERROR")

\* C9: notifyMonitors invokes every monitor with the same Response even if
\* an earlier monitor throws; a throwing monitor neither fails the call nor
\* changes the Response it returns or attaches to its error.
C9_MonitorIsolation ==
  /\ lastNotify.pass # 0 =>
       /\ lastNotify.invoked = fetcher.mon
       /\ \A j \in 1..Len(notified) :
            notified[j].pass = lastNotify.pass =>
              notified[j].response = lastNotify.response
  /\ (Settled /\ TransportResponded /\ ResponseOk(transport.status)
        /\ ~SomethingThrew) =>
       /\ Resolved
       /\ lastNotify.pass = 1
       /\ result.response = lastNotify.response
  /\ (Settled /\ TypedRejection) =>
       /\ lastNotify.pass = 2
       /\ result.error.response = lastNotify.response

C9_Witness ==
  /\ Settled /\ Resolved
  /\ Len(fetcher.mon) >= 2
  /\ lastNotify.behaviours[1] = "throw"
  /\ lastNotify.invoked = fetcher.mon
  /\ result.response = lastNotify.response

\* C10: the provider's request-transform list is the auth transform followed
\* by the configured and then the added user transforms, and in every call
\* the auth transform has completed before any user transform starts.
C10_AuthFirst ==
  /\ requestTransforms = <<"auth">> \o configured \o added
  /\ pc # "idle" => Head(fetcher.req) = "auth"
  /\ \A i \in 1..Len(events) :
       (events[i][2] = "request" /\ events[i][3] # "auth") =>
         \E j \in 1..(i - 1) : events[j] = <<"end", "request", "auth", 1>>

C10_Witness ==
  /\ Len(added) >= 1 /\ Len(configured) >= 1
  /\ pc = "transport"
  /\ fetcher.req = requestTransforms
  /\ config.log = <<"auth">> \o configured \o added

(***************************************************************************)
(* Timeout, cancellation and termination of the Fetcher call.              *)
(***************************************************************************)
TimedOut == transport.kind = "error" /\ transport.cause = "timeout"
Aborted == transport.kind = "error" /\ transport.cause = "abort"
TransformThrew ==
  \E i \in 1..Len(events) :
    events[i][1] = "throw" /\ events[i][2] \in {"request", "response"}
AllMonitorsNotifiedWith(r) ==
  \A i \in 1..Len(fetcher.mon) :
    \E j \in 1..Len(notified) :
      notified[j].monitor = fetcher.mon[i] /\ notified[j].response = r

\* C12: when the transport call ends by the timeout expiring, the Fetcher
\* call rejects with a typed error whose problem is TIMEOUT.
C12_TimeoutRejectsTyped ==
  (Settled /\ TimedOut) =>
    /\ TypedRejection
    /\ result.error.problem = "TIMEOUT_ERROR"

\* the steps of a running call: the continuations the host's task queue runs
CallStep ==
  \/ RequestTransformStart
  \/ RequestTransformReturn
  \/ RequestTransformThrow
  \/ TransportIssue
  \/ TransportRespond
  \/ TransportThrow
  \/ ResponseTransformStart
  \/ ResponseTransformReturn
  \/ ResponseTransformThrowInTry
  \/ ResponseTransformThrowInCatch
  \/ Notify
  \/ SettleTry
  \/ SettleCatch

\* a provider with one user transform, two response transforms, two monitors
InitFair ==
  /\ configured = <<"A">>
  /\ requestTransforms = InitialRequestTransforms(configured)
  /\ responseTransforms = SubSeq(RespTransformNames, 1, 2)
  /\ monitors = SubSeq(MonitorNames, 1, 2)
  /\ added = <<>>
  /\ fetcher = NoFetcher
  /\ pc = "idle"
  /\ pass = 1
  /\ config = EmptyConfig
  /\ resp = NoResp
  /\ k = 1
  /\ inflight = {}
  /\ transport = NoTransport
  /\ thrown = NoThrown
  /\ notified = <<>>
  /\ lastNotify = NoNotify
  /\ events = <<>>
  /\ result = Pending
  /\ util = NoUtil
  /\ IdleMutation
  /\ IdleHooks

\* every pending transform and transport call completes, and the task queue
\* runs the continuation
FairSpec == InitFair /\ [][Next]_vars /\ WF_vars(CallStep)

CancelledCleanly ==
  (Settled /\ Aborted /\ ~TransformThrew) =>
    /\ TypedRejection
    /\ result.error.name = "SWRKitCancelError"
    /\ result.error.problem = "CANCEL_ERROR"
    /\ result.error.response = resp
    /\ ~resp.ok
    /\ resp.log = fetcher.resp
    /\ AllMonitorsNotifiedWith(resp)

TimesApplied(name) ==
  Cardinality({i \in 1..Len(events) :
                 /\ events[i][1] = "start"
                 /\ events[i][2] = "response"
                 /\ events[i][3] = name})
TimesNotified(name) ==
  Cardinality({j \in 1..Len(notified) : notified[j].monitor = name})

\* C30: in every call, whatever its outcome, each configured response
\* transform is applied exactly once and each monitor is notified exactly
\* once.
C30_ExactlyOnce ==
  Settled =>
    /\ \A i \in 1..Len(fetcher.resp) : TimesApplied(fetcher.resp[i]) = 1
    /\ \A i \in 1..Len(fetcher.mon) : TimesNotified(fetcher.mon[i]) = 1

(***************************************************************************)
(* The pure helpers.  Each action below is one call of a helper with       *)
(* arguments drawn from bounded sets; util records the call.  The helpers  *)
(* keep no state, so a behaviour is a single call.                         *)
(***************************************************************************)
MaxHeaders == 2   \* entries of a header list
MaxParams == 2    \* entries of a params mapping
MaxConfigs == 2   \* arguments of mergeConfigs
MaxListKey == 2   \* elements of a list key

Absent == [kind |-> "absent"]

\* the main variables while no Fetcher call is running
IdleProvider ==
  /\ configured = <<>>
  /\ requestTransforms = InitialRequestTransforms(configured)
  /\ responseTransforms = <<>>
  /\ monitors = <<>>
  /\ added = <<>>

IdleCall ==
  /\ fetcher = NoFetcher
  /\ pc = "idle"
  /\ pass = 1
  /\ config = EmptyConfig
  /\ resp = NoResp
  /\ k = 1
  /\ inflight = {}
  /\ transport = NoTransport
  /\ thrown = NoThrown
  /\ notified = <<>>
  /\ lastNotify = NoNotify
  /\ events = <<>>
  /\ result = Pending

\* the functions from a subset of D to R: objects with some of the keys D
PartialMaps(D, R) == UNION {[X -> R] : X \in SUBSET D}

(***************************************************************************)
(* provider.tsx: authTransform                                             *)
(***************************************************************************)
\* DEFAULT_AUTH_CONFIG
DefaultAuthHeader == "Authorization"
DefaultTokenPrefix == "Bearer"

HeaderNames == {"Authorization", "authorization", "X-Id"}
HeaderValues == {"old", ""}
Tokens == {Null, "", "tok"}

\* String.prototype.toLowerCase on the header names of the model
ToLowerCase(name) ==
  CASE name = "Authorization" -> "authorization"
    [] name = "X-Id"          -> "x-id"
    [] OTHER                  -> name

\* the three representations of HeadersInit: a Headers instance (names are
\* case-insensitive, kept in lower case), a list of [name, value] entries,
\* a plain record
HeadersInstance(entries) == [kind |-> "Headers", entries |-> entries]
HeadersArray(entries) == [kind |-> "array", entries |-> entries]
HeadersRecord(entries) == [kind |-> "record", entries |-> entries]

HeaderInputs ==
  {Absent}
    \cup {HeadersInstance(e) :
            e \in PartialMaps({ToLowerCase(n) : n \in HeaderNames}, HeaderValues)}
    \cup {HeadersArray(e) : e \in SeqsUpTo(HeaderNames \X HeaderValues, MaxHeaders)}
    \cup {HeadersRecord(e) : e \in PartialMaps(HeaderNames, HeaderValues)}

\* obj[key] = value on a plain object
SetKey(obj, key, value) ==
  [n \in DOMAIN obj \cup {key} |-> IF n = key THEN value ELSE obj[n]]

\* JavaScript truthiness of a string-or-null value
Truthy(v) == v # Null /\ v # "" /\ v # Undefined

\* config.headers.set(authHeader, authValue)
HeadersSet(h, name, value) ==
  HeadersInstance(SetKey(h.entries, ToLowerCase(name), value))

\* findIndex(([key]) => key.toLowerCase() === authHeader.toLowerCase()) === -1
ArrayLacks(h, name) ==
  \A i \in 1..Len(h.entries) :
    ToLowerCase(h.entries[i][1]) # ToLowerCase(name)

\* !config.headers[authHeader]
RecordLacks(h, name) ==
  ~(name \in DOMAIN h.entries /\ Truthy(h.entries[name]))

\* the headers of config after authTransform(config)
authTransform(headers, autoAuth, hasGetAccessToken, token) ==
  IF autoAuth /\ hasGetAccessToken /\ Truthy(token)
    THEN LET authValue == DefaultTokenPrefix \o " " \o token
             h == IF headers = Absent THEN HeadersRecord(<<>>) ELSE headers
         IN  CASE h.kind = "Headers" ->
                    HeadersSet(h, DefaultAuthHeader, authValue)
               [] h.kind = "array" ->
                    IF ArrayLacks(h, DefaultAuthHeader)
                      THEN HeadersArray(
                             Append(h.entries, <<DefaultAuthHeader, authValue>>))
                      ELSE h
               [] h.kind = "record" ->
                    IF RecordLacks(h, DefaultAuthHeader)
                      THEN HeadersRecord(
                             SetKey(h.entries, DefaultAuthHeader, authValue))
                      ELSE h
    ELSE headers

AuthTransform ==
  /\ util = NoUtil
  /\ \E h \in HeaderInputs, autoAuth \in BOOLEAN, getter \in BOOLEAN,
        token \in Tokens :
       util' = [op |-> "authTransform", headers |-> h,
                autoAuth |-> autoAuth, token |-> IF getter THEN token ELSE Null,
                out |-> authTransform(h, autoAuth, getter, token)]
  /\ UNCHANGED <<provider, call, mutation, hooks>>

\* config.headers holds a value for the header, names compared as HTTP does
HasHeader(h, name) ==
  CASE h.kind = "absent"  -> FALSE
    [] h.kind = "Headers" -> ToLowerCase(name) \in DOMAIN h.entries
    [] h.kind = "array"   -> ~ArrayLacks(h, name)
    [] h.kind = "record"  ->
         \E n \in DOMAIN h.entries : ToLowerCase(n) = ToLowerCase(name)

\* C11: whenever config.headers already holds a value for the auth header,
\* the authentication transform leaves the headers as they are, whichever
\* representation they have.
C11_AuthHeaderOnlyIfAbsent ==
  (util.op = "authTransform" /\ HasHeader(util.headers, DefaultAuthHeader)) =>
    util.out = util.headers

(***************************************************************************)
(* utils.ts: createFetcher, the fetchConfig handed to fetchWithTimeout     *)
(***************************************************************************)
\* constants.ts
DEFAULT_TIMEOUT == 10000
METHODS_WITH_BODY == {"POST", "PUT", "PATCH"}

Methods == {"get", "GET", "post", "Post", "PUT", "patch", "DELETE", "HEAD", ""}
DataValues == {Undefined, "d1"}
Timeouts == {None, Some(0), Some(5000)}
DefaultTimeouts == {None, Some(0), Some(3000)}
\* config.options: a RequestInit, which may carry its own method and body
OptionsValues ==
  {Absent} \cup {[kind |-> "options", fields |-> f] :
                   f \in PartialMaps({"method", "body"}, {"POST", "raw"})}

\* String.prototype.toUpperCase on the method names of the model
ToUpperCase(m) ==
  CASE m = "get"   -> "GET"
    [] m = "post"  -> "POST"
    [] m = "Post"  -> "POST"
    [] m = "patch" -> "PATCH"
    [] OTHER       -> m

\* a || b on optional numbers: undefined and 0 are falsy
OrElse(a, b) == IF a # None /\ a[1] # 0 THEN a ELSE b

\* prepareRequestBody of @mshindi-labs/refetch
prepareRequestBody(data) ==
  IF data = Undefined THEN Undefined ELSE "json(" \o data \o ")"

\* shouldHaveBody sending a body with every method
shouldHaveBody_Always(method) == TRUE

shouldHaveBody(method) == ToUpperCase(method) \in METHODS_WITH_BODY

\* config.method?.toUpperCase() || 'GET'
RequestMethod(method) ==
  IF method = Undefined \/ ToUpperCase(method) = "" THEN "GET"
  ELSE ToUpperCase(method)

\* { method, headers, body, timeout, ...config.options }
SpreadOptions(base, options) ==
  IF options = Absent THEN base
  ELSE [f \in DOMAIN base |->
          IF f \in DOMAIN options.fields THEN options.fields[f] ELSE base[f]]

fetchConfig(cfg, defaultTimeout) ==
  LET method == RequestMethod(cfg.method)
      body == IF shouldHaveBody(method)
                THEN prepareRequestBody(cfg.data) ELSE Undefined
  IN  SpreadOptions(
        [method |-> method, body |-> body,
         timeout |-> OrElse(OrElse(cfg.timeout, defaultTimeout),
                            Some(DEFAULT_TIMEOUT))],
        cfg.options)

FetchConfig ==
  /\ util = NoUtil
  /\ \E m \in Methods \cup {Undefined}, d \in DataValues, t \in Timeouts,
        dt \in DefaultTimeouts, o \in OptionsValues :
       LET cfg == [method |-> m, data |-> d, timeout |-> t, options |-> o]
       IN  util' = [op |-> "fetchConfig", config |-> cfg,
                    defaultTimeout |-> dt, out |-> fetchConfig(cfg, dt)]
  /\ UNCHANGED <<provider, call, mutation, hooks>>

\* C14: the timeout passed to the transport is config.timeout when defined
\* (0 included), else the fetcher's defaultTimeout when defined (0
\* included), else 10000.
C14_TimeoutFallback ==
  util.op = "fetchConfig" =>
    util.out.timeout =
      (IF util.config.timeout # None THEN util.config.timeout
       ELSE IF util.defaultTimeout # None THEN util.defaultTimeout
       ELSE Some(10000))

BodyBearing(m) ==
  m \in {"post", "Post", "POST", "put", "PUT", "patch", "PATCH"}

\* C15 as stated: without POST, PUT or PATCH the transport call carries no
\* body; with them the body is the serialization of config.data.
C15_BodyOnlyForBodyMethods ==
  util.op = "fetchConfig" =>
    util.out.body =
      (IF util.config.method # Undefined /\ BodyBearing(util.config.method)
         THEN prepareRequestBody(util.config.data) ELSE Undefined)

OptionsBody(cfg) ==
  cfg.options # Absent /\ "body" \in DOMAIN cfg.options.fields

\* C15, amended: the same, unless config.options carries a body of its own,
\* which is then the body of the transport call.
C15_BodyByMethodOrOptions ==
  util.op = "fetchConfig" =>
    util.out.body =
      (IF OptionsBody(util.config) THEN util.config.options.fields["body"]
       ELSE IF util.config.method # Undefined /\ BodyBearing(util.config.method)
         THEN prepareRequestBody(util.config.data) ELSE Undefined)

C15_Witness ==
  /\ util.op = "fetchConfig"
  /\ util.config.method = "DELETE"
  /\ util.config.data = "d1"
  /\ ~OptionsBody(util.config)
  /\ util.out.body = Undefined

(***************************************************************************)
(* utils.ts: mergeConfigs                                                  *)
(***************************************************************************)
\* a request config: an object with some of url, headers, params; an
\* argument of mergeConfigs may also be undefined (Absent)
ConfigValues ==
  {Absent} \cup
  UNION {
    {[f \in F |-> CASE f = "url" -> u [] f = "headers" -> h [] f = "params" -> q] :
       u \in {"/a", "/b"},
       h \in PartialMaps({"Accept", "X-Id"}, {"1"}),
       q \in PartialMaps({"page"}, {"1", "2"})} :
    F \in SUBSET {"url", "headers", "params"}}

\* Object.assign(target, source) and { ...target, ...source }
ObjectAssign(target, source) ==
  [f \in DOMAIN target \cup DOMAIN source |->
     IF f \in DOMAIN source THEN source[f] ELSE target[f]]

\* mergeHeaders of @mshindi-labs/refetch on plain records
mergeHeaders(a, b) == ObjectAssign(a, b)

\* the body of the for loop
MergeOne(merged, cfg) ==
  IF cfg = Absent THEN merged
  ELSE LET m1 == ObjectAssign(merged, cfg)
           m2 == IF "headers" \in DOMAIN cfg
                   THEN SetKey(m1, "headers",
                               mergeHeaders(m1["headers"], cfg["headers"]))
                   ELSE m1
       IN  IF "params" \in DOMAIN cfg
             THEN SetKey(m2, "params",
                         ObjectAssign(m2["params"], cfg["params"]))
             ELSE m2

RECURSIVE MergeFrom(_, _, _)
MergeFrom(merged, configs, i) ==
  IF i > Len(configs) THEN merged
  ELSE MergeFrom(MergeOne(merged, configs[i]), configs, i + 1)

mergeConfigs(configs) == MergeFrom(<<>>, configs, 1)

MergeConfigs ==
  /\ util = NoUtil
  /\ \E cs \in SeqsUpTo(ConfigValues, MaxConfigs) :
       util' = [op |-> "mergeConfigs", configs |-> cs, out |-> mergeConfigs(cs)]
  /\ UNCHANGED <<provider, call, mutation, hooks>>

SetMax(S) == CHOOSE x \in S : \A y \in S : y <= x

\* the arguments that define field f, and those whose f holds key
Defining(cs, f) == {i \in 1..Len(cs) : cs[i] # Absent /\ f \in DOMAIN cs[i]}
DefiningKey(cs, f, key) == {i \in Defining(cs, f) : key \in DOMAIN cs[i][f]}

LastWins(cs, out, f) ==
  IF Defining(cs, f) = {} THEN f \notin DOMAIN out
  ELSE f \in DOMAIN out /\ out[f] = cs[SetMax(Defining(cs, f))][f]

UnionLaterWins(cs, out, f) ==
  IF Defining(cs, f) = {} THEN f \notin DOMAIN out
  ELSE /\ f \in DOMAIN out
       /\ DOMAIN out[f] = UNION {DOMAIN cs[i][f] : i \in Defining(cs, f)}
       /\ \A key \in DOMAIN out[f] :
            DefiningKey(cs, f, key) # {} =>
              out[f][key] = cs[SetMax(DefiningKey(cs, f, key))][f][key]

\* C16: mergeConfigs gives every scalar field the value of the last argument
\* defining it, and headers and params the union over all arguments, the
\* later argument winning per key.
C16_MergeConfigsUnion ==
  util.op = "mergeConfigs" =>
    /\ LastWins(util.configs, util.out, "url")
    /\ UnionLaterWins(util.configs, util.out, "headers")
    /\ UnionLaterWins(util.configs, util.out, "params")

(***************************************************************************)
(* utils.ts: buildCacheKey and extractUrlFromKey                           *)
(*                                                                         *)
(* A CacheKey is null, undefined, a string, a list or a record.  The       *)
(* elements of a list, the fields of a record and the values of params are *)
(* primitives: a string, a number or null.  params is an object whose keys *)
(* are kept in insertion order: a sequence of <<name, value>> with         *)
(* distinct names, or None when the argument is not given.                 *)
(***************************************************************************)
StrVal(x) == [str |-> x]
NumVal(n) == [num |-> n]
NullVal == [null |-> TRUE]
Prims == {StrVal("/users"), NumVal(42), NullVal}

NullKey == [kind |-> "null"]
UndefinedKey == [kind |-> "undefined"]
StringKey(x) == [kind |-> "string", value |-> x]
ListKey(items) == [kind |-> "list", items |-> items]
RecordKey(fields) == [kind |-> "record", fields |-> fields]

KeyStrings == {"", "/users", "/a"}
Keys ==
  {NullKey, UndefinedKey}
  \cup {StringKey(x) : x \in KeyStrings}
  \cup {ListKey(items) : items \in SeqsUpTo(Prims, MaxListKey)}
  \cup {RecordKey(fields) : fields \in PartialMaps({"url", "id"}, Prims)}

\* parameter names with their rank in the order of Array.prototype.sort
ParamNames == {"limit", "page", "q"}
NameRank(name) == CASE name = "limit" -> 1 [] name = "page" -> 2 [] name = "q" -> 3
ParamValues == {NumVal(1), NumVal(10), StrVal("a"), NullVal}
ParamObjects ==
  {m \in SeqsUpTo(ParamNames \X ParamValues, MaxParams) :
     \A i, j \in 1..Len(m) : m[i][1] = m[j][1] => i = j}
ParamArgs == {None} \cup {Some(m) : m \in ParamObjects}

\* Object.keys(params) and params[k]
ObjectKeys(m) == [i \in 1..Len(m) |-> m[i][1]]
Lookup(m, name) == m[CHOOSE i \in 1..Len(m) : m[i][1] = name][2]

\* .sort() without the sort
SortKeys_Unsorted(names) == names

\* Object.keys(params).sort()
SortKeys(names) == SortSeq(names, LAMBDA a, b : NameRank(a) < NameRank(b))

\* `${v}` for a string value, in place of JSON.stringify
JSONStringify_Raw(v) ==
  IF "num" \in DOMAIN v THEN ToString(v.num)
  ELSE IF "str" \in DOMAIN v THEN v.str
  ELSE "null"

\* JSON.stringify of a primitive
JSONStringify(v) ==
  IF "num" \in DOMAIN v THEN ToString(v.num)
  ELSE IF "str" \in DOMAIN v THEN "\"" \o v.str \o "\""
  ELSE "null"

\* String(x) of a primitive
StringForm(v) ==
  IF "num" \in DOMAIN v THEN ToString(v.num)
  ELSE IF "str" \in DOMAIN v THEN v.str
  ELSE "null"

\* `${url}` of a key that reached the string branch
TemplateString(key) ==
  IF key.kind = "string" THEN key.value ELSE key.kind

\* .join(sep)
RECURSIVE Join(_, _)
Join(parts, sep) ==
  IF Len(parts) = 0 THEN ""
  ELSE IF Len(parts) = 1 THEN parts[1]
  ELSE parts[1] \o sep \o Join(Tail(parts), sep)

\* key === null only
IsNullish_NullOnly(key) == key.kind = "null"

\* key === null || key === undefined
IsNullish(key) == key.kind \in {"null", "undefined"}

buildCacheKey(key, params) ==
  IF IsNullish(key) THEN NullKey
  ELSE IF key.kind = "list" THEN key
  ELSE IF key.kind = "record" THEN key
  ELSE IF params # None /\ Len(ObjectKeys(params[1])) > 0
    THEN LET m == params[1]
             sorted == SortKeys(ObjectKeys(m))
             sortedParams ==
               Join([i \in 1..Len(sorted) |->
                       sorted[i] \o "=" \o JSONStringify(Lookup(m, sorted[i]))],
                    "&")
         IN  StringKey(TemplateString(key) \o "?" \o sortedParams)
    ELSE key

BuildCacheKey ==
  /\ util = NoUtil
  /\ \E key \in Keys, params \in ParamArgs :
       util' = [op |-> "buildCacheKey", key |-> key, params |-> params,
                out |-> buildCacheKey(key, params)]
  /\ UNCHANGED <<provider, call, mutation, hooks>>

\* !key, without the empty string
FalsyKey_Nullish(key) == key.kind \in {"null", "undefined"}

\* !key
FalsyKey(key) ==
  \/ key.kind \in {"null", "undefined"}
  \/ key.kind = "string" /\ key.value = ""

extractUrlFromKey(key) ==
  IF FalsyKey(key) THEN NullKey
  ELSE IF key.kind = "string" THEN key
  ELSE IF key.kind = "list" /\ Len(key.items) > 0
    THEN StringKey(StringForm(key.items[1]))
  ELSE IF key.kind = "record" /\ "url" \in DOMAIN key.fields
    THEN StringKey(StringForm(key.fields["url"]))
  ELSE NullKey

ExtractUrlFromKey ==
  /\ util = NoUtil
  /\ \E key \in Keys :
       util' = [op |-> "extractUrlFromKey", key |-> key,
                out |-> extractUrlFromKey(key)]
  /\ UNCHANGED <<provider, call, mutation, hooks>>

\* the same pairs in every insertion order
Reorderings(m) ==
  {[i \in 1..Len(m) |-> m[p[i]]] : p \in Permutations(1..Len(m))}

\* C17: for a string path p, buildCacheKey(p, m1) = buildCacheKey(p, m2)
\* whenever m1 and m2 hold the same name/value pairs in different insertion
\* order.
C17_KeyDeterminism ==
  (util.op = "buildCacheKey" /\ util.key.kind = "string" /\ util.params # None) =>
    \A m2 \in Reorderings(util.params[1]) :
      buildCacheKey(util.key, Some(m2)) = util.out

\* params given with page before limit; the key lists limit first
C17_Witness ==
  /\ util.op = "buildCacheKey"
  /\ util.key = StringKey("/a")
  /\ util.params = Some(<<<<"page", NullVal>>, <<"limit", NumVal(1)>>>>)
  /\ util.out = buildCacheKey(util.key, Some(<<<<"limit", NumVal(1)>>, <<"page", NullVal>>>>))

\* the JSON text of a value
JSONText(v) ==
  CASE v = NumVal(1) -> "1"
    [] v = NumVal(10) -> "10"
    [] v = StrVal("a") -> "\"a\""
    [] v = NullVal -> "null"

\* o lists the entries of m by ascending name
Ascending(m, o) ==
  \A i, j \in 1..Len(m) : i < j => NameRank(m[o[i]][1]) < NameRank(m[o[j]][1])

\* C18: for a string key p, buildCacheKey(p, params) is p when params is
\* absent or empty, and otherwise p, "?", and the entries name=JSON(value)
\* ordered by name and joined with "&"; "/users" with {page: 1, limit: 10}
\* gives "/users?limit=10&page=1".
C18_StringKeyWithParams ==
  (util.op = "buildCacheKey" /\ util.key.kind = "string") =>
    /\ IF util.params = None \/ util.params = Some(<<>>)
         THEN util.out = util.key
         ELSE LET m == util.params[1]
              IN  \E o \in Permutations(1..Len(m)) :
                    /\ Ascending(m, o)
                    /\ util.out =
                         StringKey(util.key.value \o "?" \o
                           Join([i \in 1..Len(m) |->
                                   m[o[i]][1] \o "=" \o JSONText(m[o[i]][2])],
                                "&"))
    /\ (/\ util.key = StringKey("/users")
        /\ util.params = Some(<<<<"page", NumVal(1)>>, <<"limit", NumVal(10)>>>>))
         => util.out = StringKey("/users?limit=10&page=1")

C18_Witness ==
  /\ util.op = "buildCacheKey"
  /\ util.key = StringKey("/users")
  /\ util.params = Some(<<<<"q", StrVal("a")>>, <<"limit", NumVal(10)>>>>)
  /\ util.out = StringKey("/users?limit=10&q=\"a\"")

\* C19: buildCacheKey returns null exactly when the key is null or
\* undefined, whatever the params, and returns a list key or a record key
\* unchanged, the params ignored.
C19_NullAndPassThrough ==
  util.op = "buildCacheKey" =>
    /\ util.out = NullKey <=> util.key \in {NullKey, UndefinedKey}
    /\ util.key.kind \in {"list", "record"} => util.out = util.key

\* an undefined key with params given
C19_Witness ==
  /\ util.op = "buildCacheKey"
  /\ util.key = UndefinedKey
  /\ util.params # None /\ Len(util.params[1]) > 0
  /\ util.out = NullKey

\* a field of a record key as a result: a string is itself
FieldAsResult(v) == IF "str" \in DOMAIN v THEN StringKey(v.str) ELSE v

\* C20 as stated: extractUrlFromKey returns the string itself for every
\* string key, the string form of the first element of a non-empty list key,
\* the url field of a record key that has one, and null for every other key.
C20_ExtractUrl ==
  util.op = "extractUrlFromKey" =>
    LET key == util.key
    IN  IF key.kind = "string" THEN util.out = key
        ELSE IF key.kind = "list" /\ Len(key.items) > 0
          THEN util.out = StringKey(StringForm(key.items[1]))
        ELSE IF key.kind = "record" /\ "url" \in DOMAIN key.fields
          THEN util.out = FieldAsResult(key.fields["url"])
        ELSE util.out = NullKey

\* C20: extractUrlFromKey returns the string itself for every non-empty
\* string key, the string form of the first element of a non-empty list key,
\* the string form of the url field of a record key that has one, and null
\* for every other key: null, undefined, the empty string, the empty list, a
\* record without url.
C20_ExtractUrlNonEmpty ==
  util.op = "extractUrlFromKey" =>
    LET key == util.key
    IN  IF key.kind = "string" /\ key.value # "" THEN util.out = key
        ELSE IF key.kind = "list" /\ Len(key.items) > 0
          THEN util.out = StringKey(StringForm(key.items[1]))
        ELSE IF key.kind = "record" /\ "url" \in DOMAIN key.fields
          THEN util.out = StringKey(StringForm(key.fields["url"]))
        ELSE util.out = NullKey

\* the empty string key gives null
C20_Witness ==
  /\ util.op = "extractUrlFromKey"
  /\ util.key = StringKey("")
  /\ util.out = NullKey

(***************************************************************************)
(* errors.ts: createErrorFromResponse on any response, and the message of  *)
(* the error it builds                                                     *)
(***************************************************************************)
PROBLEM_CODES ==
  {"CLIENT_ERROR", "SERVER_ERROR", "NETWORK_ERROR", "CONNECTION_ERROR",
   "TIMEOUT_ERROR", "CANCEL_ERROR", "UNKNOWN_ERROR"}

\* an Error with its message
ErrorWithMessage(message) ==
  [name |-> "Error", cause |-> "plain", message |-> message]

\* responses handed to createErrorFromResponse: any problem (also null and a
\* value outside PROBLEM_CODE), with or without status and original error
ErrorInputs ==
  [ok : {FALSE},
   problem : PROBLEM_CODES \cup {Null, "OTHER"},
   originalError : {NoError, ErrorWithMessage(""), ErrorWithMessage("boom")},
   data : {Undefined},
   status : {None, Some(404), Some(500)},
   headers : {FALSE}]

\* `${response.status}`
StatusString(status) == IF status = None THEN Undefined ELSE ToString(status[1])

\* response.originalError?.message
OriginalMessage(response) ==
  IF response.originalError = NoError THEN Undefined
  ELSE response.originalError.message

\* the message, with ?? in place of ||
ErrorMessage_Nullish(response) ==
  IF OriginalMessage(response) # Undefined
    THEN OriginalMessage(response)
    ELSE "Request failed with status " \o StatusString(response.status)

\* response.originalError?.message || `Request failed with status ${...}`
ErrorMessage(response) ==
  IF Truthy(OriginalMessage(response))
    THEN OriginalMessage(response)
    ELSE "Request failed with status " \o StatusString(response.status)

CreateErrorFromResponse ==
  /\ util = NoUtil
  /\ \E r \in ErrorInputs :
       util' = [op |-> "createErrorFromResponse", response |-> r,
                out |-> createErrorFromResponse(r),
                message |-> ErrorMessage(r)]
  /\ UNCHANGED <<provider, call, mutation, hooks>>

\* the error kind of each problem
KindOfProblem(problem) ==
  CASE problem = "CLIENT_ERROR" -> "SWRKitClientError"
    [] problem = "SERVER_ERROR" -> "SWRKitServerError"
    [] problem = "NETWORK_ERROR" -> "SWRKitNetworkError"
    [] problem = "CONNECTION_ERROR" -> "SWRKitConnectionError"
    [] problem = "TIMEOUT_ERROR" -> "SWRKitTimeoutError"
    [] problem = "CANCEL_ERROR" -> "SWRKitCancelError"
    [] OTHER -> "SWRKitError"

\* C28: createErrorFromResponse maps each of CLIENT_ERROR, SERVER_ERROR,
\* NETWORK_ERROR, CONNECTION_ERROR, TIMEOUT_ERROR, CANCEL_ERROR to its own
\* error kind with that problem, every other problem to the base kind with
\* UNKNOWN_ERROR; the error carries the response and its status, and its
\* message is the original error's message when non-empty, otherwise
\* "Request failed with status <status>".
C28_ErrorFromResponse ==
  util.op = "createErrorFromResponse" =>
    LET r == util.response
        e == util.out
        own == PROBLEM_CODES \ {"UNKNOWN_ERROR"}
    IN  /\ e.typed
        /\ e.name = KindOfProblem(r.problem)
        /\ e.problem = IF r.problem \in own THEN r.problem ELSE "UNKNOWN_ERROR"
        /\ \A p, q \in own : KindOfProblem(p) = KindOfProblem(q) => p = q
        /\ \A p \in own : KindOfProblem(p) # "SWRKitError"
        /\ e.response = r
        /\ e.status = r.status
        /\ util.message =
             IF r.originalError \in {ErrorWithMessage("boom")}
               THEN "boom"
               ELSE CASE r.status = None -> "Request failed with status undefined"
                      [] r.status = Some(404) -> "Request failed with status 404"
                      [] r.status = Some(500) -> "Request failed with status 500"

\* a timeout response whose original error has an empty message
C28_Witness ==
  /\ util.op = "createErrorFromResponse"
  /\ util.response.problem = "TIMEOUT_ERROR"
  /\ util.response.originalError = ErrorWithMessage("")
  /\ util.response.status = Some(404)
  /\ util.out.name = "SWRKitTimeoutError"
  /\ util.message = "Request failed with status 404"

(***************************************************************************)
(* swrkit.ts: useFetch with the fetcher of the provider, and               *)
(* createMockFetcher                                                       *)
(***************************************************************************)
\* an entry of the responses map of createMockFetcher: data, or an Error
MockEntries ==
  {[data |-> "b1"], [data |-> Null], [error |-> ErrorWithMessage("boom")]}

\* the Response createMockFetcher resolves with
createMockFetcher(entry) ==
  IF "error" \in DOMAIN entry
    THEN [ok |-> FALSE, problem |-> "UNKNOWN_ERROR",
          originalError |-> entry.error, data |-> Undefined,
          status |-> Some(500), headers |-> TRUE]
    ELSE [ok |-> TRUE, problem |-> Null, originalError |-> NoError,
          data |-> entry.data, status |-> Some(200), headers |-> TRUE]

\* how the provider's fetcher settles: a mock fetcher resolves with its
\* Response, any fetcher may resolve with a failed Response that carries
\* the body of the error, the fetcher of createFetcher rejects with the
\* typed error of a failed Response
FailedResponses ==
  [ok : {FALSE}, problem : {"CLIENT_ERROR", "TIMEOUT_ERROR"},
   originalError : {ErrorWithMessage("boom")}, data : {Undefined, "b2"},
   status : {Some(404)}, headers : {TRUE}]
FetcherOutcomes ==
  {[kind |-> "resolved", response |-> createMockFetcher(e)] : e \in MockEntries}
  \cup {[kind |-> "resolved", response |-> r] : r \in FailedResponses}
  \cup {[kind |-> "rejected", error |-> createErrorFromResponse(r)] :
          r \in FailedResponses}

\* the fetcher useFetch gives to useSWR
UseFetchFetcher(url, outcome) ==
  IF ~Truthy(url)
    THEN [kind |-> "rejected", error |-> RawError("plain")]
  ELSE IF outcome.kind = "rejected" THEN outcome
  ELSE [kind |-> "resolved", data |-> outcome.response.data]

\* error?.response || null
extractResponseFromError(error) ==
  IF "response" \in DOMAIN error THEN Some(error.response) ELSE None

\* the keys, params, request configs and stages of a useFetch call; the
\* stage is where useSWR is with the key: it has none, the first load is
\* running, or the fetcher has settled
UseFetchKeys ==
  {NullKey, UndefinedKey, StringKey(""), StringKey("/api/user"),
   ListKey(<<StrVal("/api/user")>>), RecordKey("id" :> NumVal(42))}
UseFetchParams ==
  {None, Some(<<>>), Some(<<<<"page", NumVal(1)>>>>),
   Some(<<<<"q", StrVal("a")>>, <<"limit", NumVal(10)>>>>)}
UseFetchRequestConfigs == {Absent, [headers |-> ("X-Id" :> "1")]}
UseFetchStages == {"loading", "settled"}

\* if (skip || !resolvedKey) return null; return buildCacheKey(resolvedKey, params)
UseFetchCacheKey(key, params, skip) ==
  IF skip \/ FalsyKey(key) THEN NullKey ELSE buildCacheKey(key, params)

\* params as the object mergeConfigs spreads
ParamsObject(m) == [n \in {m[i][1] : i \in 1..Len(m)} |-> Lookup(m, n)]

\* the config the fetcher of useFetch passes to the provider's fetcher
UseFetchRequest(fetchKey, params, requestConfig) ==
  LET url == extractUrlFromKey(fetchKey)
      first == [url |-> url.value, method |-> "GET"]
  IN  mergeConfigs(<<IF params = None THEN first
                     ELSE SetKey(first, "params", ParamsObject(params[1])),
                     requestConfig>>)

\* what useSWR returns for the key at a stage
UseSWR(cacheKey, stage, settled) ==
  IF cacheKey = NullKey
    THEN [data |-> Undefined, error |-> None, isLoading |-> FALSE,
          isValidating |-> FALSE]
  ELSE IF stage = "loading"
    THEN [data |-> Undefined, error |-> None, isLoading |-> TRUE,
          isValidating |-> TRUE]
  ELSE [data |-> IF settled.kind = "resolved" THEN settled.data ELSE Undefined,
        error |-> IF settled.kind = "rejected" THEN Some(settled.error)
                  ELSE None,
        isLoading |-> FALSE, isValidating |-> FALSE]

\* isLoading || (!data && !error && !suspense)
IsLoading(swr, suspense) ==
  swr.isLoading \/ (~Truthy(swr.data) /\ swr.error = None /\ ~suspense)

\* what useFetch returns
UseFetchReturn(swr, suspense) ==
  LET responseData == IF swr.error # None
                        THEN extractResponseFromError(swr.error[1])
                        ELSE None
  IN  [data |-> swr.data,
       error |-> swr.error,
       problem |-> IF responseData # None THEN responseData[1].problem ELSE Null,
       status |-> IF responseData # None THEN responseData[1].status ELSE None,
       isLoading |-> IsLoading(swr, suspense),
       isValidating |-> swr.isValidating]

UseFetch ==
  /\ util = NoUtil
  /\ \E key \in UseFetchKeys, params \in UseFetchParams, skip \in BOOLEAN,
        suspense \in BOOLEAN, requestConfig \in UseFetchRequestConfigs,
        stage \in UseFetchStages, outcome \in FetcherOutcomes :
       LET cacheKey == UseFetchCacheKey(key, params, skip)
           url == extractUrlFromKey(cacheKey)
           fetched == cacheKey # NullKey /\ stage = "settled"
           requested == fetched /\ url # NullKey /\ Truthy(url.value)
           settled == UseFetchFetcher(IF url = NullKey THEN Null ELSE url.value,
                                      outcome)
       IN  util' = [op |-> "useFetch", key |-> key, params |-> params,
                    skip |-> skip, suspense |-> suspense,
                    cacheKey |-> cacheKey,
                    stage |-> IF cacheKey = NullKey THEN "idle" ELSE stage,
                    request |-> IF requested
                                  THEN Some(UseFetchRequest(cacheKey, params,
                                                            requestConfig))
                                  ELSE None,
                    outcome |-> IF requested THEN outcome ELSE NoOutcome,
                    out |-> UseFetchReturn(UseSWR(cacheKey, stage, settled),
                                           suspense)]
  /\ UNCHANGED <<provider, call, mutation, hooks>>

\* the Response of a failed outcome
FailedOutcome(outcome) ==
  IF outcome.kind = "rejected" THEN outcome.error.response
  ELSE outcome.response

\* C29: when the provider's fetcher produces a failed outcome (as a mock
\* fetcher does for a URL mapped to an Error), useFetch ends with error
\* defined and problem equal to the problem of the Response, and does not
\* report a successful load.
C29_UseFetchReportsFailure ==
  (/\ util.op = "useFetch"
   /\ util.outcome # NoOutcome
   /\ \/ util.outcome.kind = "rejected"
      \/ ~util.outcome.response.ok) =>
    /\ util.out.error # None
    /\ util.out.problem = FailedOutcome(util.outcome).problem
    /\ util.out.data = Undefined

\* useFetch was called with a string key and non-empty params and its
\* fetcher has called the provider's fetcher
FetchedWithParams ==
  /\ util.op = "useFetch"
  /\ util.request # None
  /\ util.key.kind = "string"
  /\ util.params # None
  /\ Len(util.params[1]) > 0

\* C33: for a string key p and non-empty params the config useFetch passes to
\* the Fetcher has url p, without a query string, and the params once, so
\* that the parameters are not both in url and in params.
C33_ParamsOnlyOnce ==
  FetchedWithParams =>
    /\ util.request[1].url = util.key.value
    /\ util.request[1].params = ParamsObject(util.params[1])

\* no request was made: the key is null, undefined or empty, or skip is set
NoRequestMade == util.op = "useFetch" /\ util.stage = "idle"

\* the load has completed, with data or with an error
LoadCompleted ==
  /\ util.op = "useFetch"
  /\ util.stage = "settled"
  /\ util.out.data # Undefined \/ util.out.error # None

\* C36: isLoading is true only while an initial load is in progress: it is
\* false when no request is made (null or undefined key, skip) and after a
\* load has completed with data or with an error.
C36_LoadingOnlyWhileLoading ==
  (NoRequestMade \/ LoadCompleted) => ~util.out.isLoading

InitUtil ==
  IdleProvider /\ IdleCall /\ util = NoUtil /\ IdleMutation /\ IdleHooks

NextUtil ==
  \/ AuthTransform
  \/ FetchConfig
  \/ MergeConfigs
  \/ BuildCacheKey
  \/ ExtractUrlFromKey
  \/ CreateErrorFromResponse
  \/ UseFetch

SpecUtil == InitUtil /\ [][NextUtil]_vars

(***************************************************************************)
(* swrkit.ts: useMutation.  One hook instance with its options, the cache  *)
(* entry under its key, and one trigger call at a time.  useSWRMutation    *)
(* and the global mutate belong to the cache engine (swr): the optimistic  *)
(* write, the rollback, the population and the revalidation marks below    *)
(* are that engine's part, the request, the callbacks' wrappers and the    *)
(* value trigger settles with are useMutation's.                           *)
(***************************************************************************)
MaxInvalidateKeys == 2   \* keys listed in invalidateKeys
MaxExternalWrites == 1   \* imperative mutate(key, data) calls on the key

MutationUrl == "/posts/1/like"
MutationMethod == "POST"
InvalidateKeyNames == <<"/a", "/b", "/c">>
Variables == {"v1", "v2"}

ServerPost == Post(TRUE, 6)
ExternalPost == Post(FALSE, 7)

\* options.request and the overrideConfig argument of trigger; {} is an
\* override too
RequestConfigs ==
  {Absent, [headers |-> ("X-Id" :> "1")], [params |-> ("page" :> "1")]}
OverrideConfigs ==
  {<<>>, [headers |-> ("Accept" :> "1")],
   [url |-> "/other", params |-> ("page" :> "2")]}

MutationOptionSets ==
  [optimisticData : BOOLEAN, populateCache : BOOLEAN,
   rollbackOnError : BOOLEAN, revalidate : {TRUE}, throwOnError : BOOLEAN,
   invalidateKeys : {SubSeq(InvalidateKeyNames, 1, n) : n \in 0..MaxInvalidateKeys},
   request : RequestConfigs]

\* optimisticData: (current) => ({ ...current, liked: true })
optimisticData(current) == [current EXCEPT !.liked = TRUE]

\* how contextFetcher settles: createFetcher's fetcher resolves with an ok
\* Response or rejects with a typed error (or with a raw error, see C1); a
\* fetcher given in the provider config may resolve with a failed Response
OkResponse(data) ==
  [ok |-> TRUE, problem |-> Null, originalError |-> NoError, data |-> data,
   status |-> Some(200), headers |-> TRUE]
NotFound ==
  [ok |-> FALSE, problem |-> "CLIENT_ERROR",
   originalError |-> ErrorWithMessage("boom"), data |-> Undefined,
   status |-> Some(404), headers |-> TRUE]
SuccessOutcomes == {[kind |-> "resolved", response |-> OkResponse(ServerPost)]}
FailureOutcomes ==
  {[kind |-> "resolved", response |-> NotFound],
   [kind |-> "rejected", error |-> createErrorFromResponse(NotFound)],
   [kind |-> "rejected", error |-> RawError("plain")]}

\* swrMutationFetcher: the error it throws for a failed outcome
AttachResponse(error, response) ==
  [typed |-> FALSE, name |-> error.name, cause |-> error.cause,
   response |-> response]
swrMutationFetcherError(outcome) ==
  IF outcome.kind = "rejected" THEN outcome.error
  ELSE AttachResponse(outcome.response.originalError, outcome.response)

\* the request of a trigger call
MutationRequest(v, requestConfig) ==
  mergeConfigs(<<[url |-> MutationUrl, method |-> MutationMethod, data |-> v],
                 requestConfig>>)
OverrideRequest(v, requestConfig, overrideConfig) ==
  mergeConfigs(<<[url |-> MutationUrl, method |-> MutationMethod, data |-> v],
                 requestConfig, overrideConfig>>)

InitMutation ==
  /\ IdleProvider
  /\ IdleCall
  /\ util = NoUtil
  /\ mutationOptions \in MutationOptionSets
  /\ cache = InitialPost
  /\ external = NoExternal
  /\ IdleTrigger
  /\ IdleHooks

\* trigger(variables): useSWRMutation's trigger sets its isMutating, writes
\* the optimistic value and calls swrMutationFetcher
Trigger ==
  /\ mpc = "idle"
  /\ \E v \in Variables :
       trig' = [kind |-> "swr", variables |-> v, override |-> Absent,
                request |-> MutationRequest(v, mutationOptions.request),
                pre |-> cache, optimistic |-> mutationOptions.optimisticData,
                superseded |-> FALSE, disturbed |-> FALSE, mutating |-> TRUE,
                outcome |-> NoOutcome, error |-> NoError]
  /\ cache' = IF mutationOptions.optimisticData THEN optimisticData(cache)
              ELSE cache
  /\ mpc' = "fetching"
  /\ UNCHANGED <<provider, call, util, hooks, mutationOptions, marked, invalidating,
                 calls, triggerResult, external>>

\* trigger(variables, overrideConfig): the fetcher is called directly,
\* useSWRMutation's trigger is not called and its state stays as it is
TriggerOverride ==
  /\ mpc = "idle"
  /\ \E v \in Variables, o \in OverrideConfigs :
       trig' = [kind |-> "override", variables |-> v, override |-> o,
                request |-> OverrideRequest(v, mutationOptions.request, o),
                pre |-> cache, optimistic |-> FALSE,
                superseded |-> FALSE, disturbed |-> FALSE, mutating |-> FALSE,
                outcome |-> NoOutcome, error |-> NoError]
  /\ mpc' = "overrideFetching"
  /\ UNCHANGED <<provider, call, util, hooks, mutationOptions, cache, marked,
                 invalidating, calls, triggerResult, external>>


\* the engine skips rollback and population of a mutation when a newer
\* mutation of the same key has started in the meantime
NewerMutation_Ignored(t) == FALSE

NewerMutation(t) == t.superseded

\* rollbackOnError handed to useSWRMutation as false
RollbackOnError_Off(opts) == FALSE

\* rollbackOnError as handed to useSWRMutation
RollbackOnError(opts) == opts.rollbackOnError

ShouldRollback(opts, t) ==
  t.optimistic /\ RollbackOnError(opts) /\ ~NewerMutation(t)

\* the second argument useSWRMutation gives to its onSuccess and onError:
\* the key of the mutation
CallbackKey == MutationUrl

\* an invocation of a user callback; marked: the keys marked by then
CallbackCall(cb, first, second, done) ==
  [cb |-> cb, args |-> <<first, second>>, marked |-> done]

\* the onSuccess wrapper calling the user's onSuccess without awaiting
CanCallOnSuccess_NoAwait(pending) == TRUE

\* await Promise.all(invalidateKeys.map((k) => globalMutate(k)))
CanCallOnSuccess(pending) == pending = {}

\* the Response trigger builds from the result of useSWRMutation's trigger
TriggerResponse(data) ==
  [ok |-> TRUE, problem |-> Null, originalError |-> NoError, data |-> data]

\* the catch block of wrappedTrigger
TriggerCatch(error) ==
  LET responseData == extractResponseFromError(error)
  IN  IF responseData # None
        THEN [kind |-> "resolved", response |-> responseData[1]]
        ELSE [kind |-> "rejected", error |-> error]

\* the fetcher resolved with an ok Response
MutationSucceeds ==
  /\ mpc = "fetching"
  /\ \E outcome \in SuccessOutcomes :
       LET data == outcome.response.data
           keys == {mutationOptions.invalidateKeys[j] :
                      j \in 1..Len(mutationOptions.invalidateKeys)}
       IN  /\ trig' = [trig EXCEPT !.outcome = outcome, !.mutating = FALSE]
           /\ cache' = IF ~NewerMutation(trig) /\ mutationOptions.populateCache
                         THEN data ELSE cache
           /\ marked' = IF ~NewerMutation(trig) /\ mutationOptions.revalidate
                          THEN marked \cup {MutationUrl} ELSE marked
           /\ triggerResult' = [kind |-> "resolved",
                                response |-> TriggerResponse(data)]
           /\ IF Len(mutationOptions.invalidateKeys) > 0
                THEN /\ invalidating' = keys
                     /\ mpc' = "invalidating"
                     /\ UNCHANGED calls
                ELSE /\ calls' = Append(calls,
                                   CallbackCall("onSuccess", data, CallbackKey,
                                                marked'))
                     /\ mpc' = "done"
                     /\ UNCHANGED invalidating
  /\ UNCHANGED <<provider, call, util, hooks, mutationOptions, external>>

\* a globalMutate(k) of the onSuccess wrapper completes
InvalidateComplete ==
  /\ \E key \in invalidating :
       /\ invalidating' = invalidating \ {key}
       /\ marked' = marked \cup {key}
  /\ UNCHANGED <<provider, call, util, hooks, mutationOptions, cache, mpc, trig,
                 calls, triggerResult, external>>

\* the onSuccess wrapper goes on to the user's onSuccess
UserOnSuccess ==
  /\ mpc = "invalidating"
  /\ CanCallOnSuccess(invalidating)
  /\ calls' = Append(calls,
                CallbackCall("onSuccess", trig.outcome.response.data,
                             CallbackKey, marked))
  /\ mpc' = "done"
  /\ UNCHANGED <<provider, call, util, hooks, mutationOptions, cache, marked,
                 invalidating, trig, triggerResult, external>>

\* the fetcher rejected, or resolved with a failed Response
MutationFails ==
  /\ mpc = "fetching"
  /\ \E outcome \in FailureOutcomes :
       LET error == swrMutationFetcherError(outcome)
       IN  /\ trig' = [trig EXCEPT !.outcome = outcome, !.error = error,
                                 !.mutating = FALSE]
           /\ cache' = IF ShouldRollback(mutationOptions, trig)
                         THEN trig.pre ELSE cache
           /\ calls' = Append(calls,
                         CallbackCall("onError", error, CallbackKey, marked))
           /\ triggerResult' =
                IF mutationOptions.throwOnError
                  THEN TriggerCatch(error)
                  ELSE [kind |-> "resolved",
                        response |-> TriggerResponse(Undefined)]
  /\ mpc' = "done"
  /\ UNCHANGED <<provider, call, util, hooks, mutationOptions, marked, invalidating,
                 external>>

\* the fetcher of an override call settles
OverrideSettles ==
  /\ mpc = "overrideFetching"
  /\ \E outcome \in SuccessOutcomes \cup FailureOutcomes :
       /\ trig' = [trig EXCEPT !.outcome = outcome,
                     !.error = IF outcome.kind = "rejected"
                                 THEN outcome.error ELSE NoError]
       /\ triggerResult' = outcome
  /\ mpc' = "done"
  /\ UNCHANGED <<provider, call, util, hooks, mutationOptions, cache, marked,
                 invalidating, calls, external>>

\* mutate(key, data) on the mutation's key from elsewhere
ExternalWrite ==
  /\ external.count < MaxExternalWrites
  /\ external' = [count |-> external.count + 1]
  /\ cache' = ExternalPost
  /\ trig' = IF mpc = "idle" THEN trig
             ELSE [trig EXCEPT !.disturbed = TRUE,
                               !.superseded = @ \/ mpc = "fetching"]
  /\ UNCHANGED <<provider, call, util, hooks, mutationOptions, marked, invalidating,
                 mpc, calls, triggerResult>>

\* the caller has taken the result of trigger; it can be called again
MutationFinish ==
  /\ mpc = "done"
  /\ invalidating = {}
  /\ marked' = {}
  /\ mpc' = "idle"
  /\ trig' = NoTrigger
  /\ calls' = <<>>
  /\ triggerResult' = Pending
  /\ UNCHANGED invalidating
  /\ UNCHANGED <<provider, call, util, hooks, mutationOptions, cache, external>>

NextMutation ==
  \/ Trigger
  \/ TriggerOverride
  \/ MutationSucceeds
  \/ InvalidateComplete
  \/ UserOnSuccess
  \/ MutationFails
  \/ OverrideSettles
  \/ ExternalWrite
  \/ MutationFinish

SpecMutation == InitMutation /\ [][NextMutation]_vars

(***************************************************************************)
(* Properties of useMutation.                                              *)
(***************************************************************************)
NoOverrideCall == trig.kind = "swr"
OverrideCall == trig.kind = "override"
TriggerSettled == triggerResult # Pending
MutationFailed == NoOverrideCall /\ mpc = "done" /\ trig.error # NoError
MutationSucceeded ==
  NoOverrideCall /\ mpc \in {"invalidating", "done"} /\ trig.error = NoError
InvalidateKeySet ==
  {mutationOptions.invalidateKeys[j] :
     j \in 1..Len(mutationOptions.invalidateKeys)}

\* C21 as stated: with optimisticData and rollbackOnError, once a failed
\* no-override trigger has settled the cache holds the value it had just
\* before trigger was called.
C21_RollbackRestores ==
  (/\ MutationFailed
   /\ TriggerSettled
   /\ mutationOptions.optimisticData
   /\ mutationOptions.rollbackOnError) => cache = trig.pre

\* C21: with optimisticData and rollbackOnError, once a failed no-override
\* trigger has settled the cache holds the value it had just before trigger
\* was called, provided no other write to the key has landed since then.
C21_RollbackRestoresUndisturbed ==
  (/\ MutationFailed
   /\ TriggerSettled
   /\ mutationOptions.optimisticData
   /\ mutationOptions.rollbackOnError
   /\ ~trig.disturbed) => cache = trig.pre

\* {liked: false, likes: 5} -> {liked: true, likes: 5} -> back
C21_Witness ==
  /\ MutationFailed
  /\ TriggerSettled
  /\ mutationOptions.optimisticData
  /\ mutationOptions.rollbackOnError
  /\ ~trig.disturbed
  /\ trig.pre = Post(FALSE, 5)
  /\ optimisticData(trig.pre) = Post(TRUE, 5)
  /\ cache = Post(FALSE, 5)

\* C22: when another write to the key lands between the optimistic write of
\* a mutation and its failure, the rollback does not put the pre-optimistic
\* value over the newer one.
C22_RollbackKeepsNewerWrite ==
  (MutationFailed /\ trig.optimistic /\ trig.superseded) => cache = ExternalPost

C22_Witness ==
  /\ MutationFailed
  /\ trig.optimistic
  /\ mutationOptions.rollbackOnError
  /\ trig.superseded
  /\ trig.pre # ExternalPost
  /\ cache = ExternalPost

\* C23: the user's onSuccess is invoked only when the invalidation of every
\* key of invalidateKeys has completed, and it is invoked also when
\* invalidateKeys is empty.
C23_InvalidateBeforeOnSuccess ==
  /\ \A i \in 1..Len(calls) :
       calls[i].cb = "onSuccess" => InvalidateKeySet \subseteq calls[i].marked
  /\ (MutationSucceeded /\ InvalidateKeySet = {}) =>
       \E i \in 1..Len(calls) : calls[i].cb = "onSuccess"

C23_Witness ==
  /\ MutationSucceeded
  /\ InvalidateKeySet = {"/a", "/b"}
  /\ \E i \in 1..Len(calls) :
       calls[i].cb = "onSuccess" /\ {"/a", "/b"} \subseteq calls[i].marked

\* C24: the user's onSuccess gets the mutation result and the variables
\* passed to trigger, the user's onError the error and those variables.
C24_CallbackArguments ==
  \A i \in 1..Len(calls) :
    /\ calls[i].cb = "onSuccess" =>
         calls[i].args = <<trig.outcome.response.data, trig.variables>>
    /\ calls[i].cb = "onError" =>
         calls[i].args = <<trig.error, trig.variables>>

\* C25: when a no-override trigger fails with a typed error and throwOnError
\* is true, the promise returned by trigger rejects with that error.
C25_ThrowOnErrorRejects ==
  (/\ MutationFailed
   /\ TriggerSettled
   /\ mutationOptions.throwOnError
   /\ trig.error.typed) =>
    triggerResult = [kind |-> "rejected", error |-> trig.error]

\* C26: trigger with an overrideConfig always resolves with a Response: the
\* Fetcher's, or the one carried by the typed error the Fetcher threw.
C26_OverrideResolves ==
  (OverrideCall /\ mpc = "done") =>
    /\ triggerResult.kind = "resolved"
    /\ trig.outcome.kind = "resolved" =>
         triggerResult.response = trig.outcome.response
    /\ (trig.outcome.kind = "rejected" /\ trig.outcome.error.typed) =>
         triggerResult.response = trig.outcome.error.response

\* the three configs an override call merges
OverrideArguments ==
  <<[url |-> MutationUrl, method |-> MutationMethod, data |-> trig.variables],
    mutationOptions.request, trig.override>>

\* the request is the merge of the three configs, the later one winning
MergedAsSpecified(request) ==
  /\ LastWins(OverrideArguments, request, "url")
  /\ LastWins(OverrideArguments, request, "method")
  /\ LastWins(OverrideArguments, request, "data")
  /\ UnionLaterWins(OverrideArguments, request, "headers")
  /\ UnionLaterWins(OverrideArguments, request, "params")

\* an override call leaves the cache and the callbacks alone
OverrideFrame ==
  OverrideCall =>
    /\ ~trig.disturbed => cache = trig.pre
    /\ marked = {}
    /\ invalidating = {}
    /\ calls = <<>>

\* C27: a trigger call with an overrideConfig writes nothing to the cache,
\* marks nothing for revalidation, invalidates nothing and invokes neither
\* callback, whether it succeeds or fails; its request is {url, method,
\* data: variables} merged with the base request config and the override.
C27_OverrideLeavesCacheAlone ==
  /\ OverrideFrame
  /\ OverrideCall => MergedAsSpecified(trig.request)

\* C31: a no-override trigger resolves with an ok Response only if the
\* fetcher call succeeded; with throwOnError false and a failing call it does
\* not resolve with {ok: true, problem: null}.
C31_OkOnlyOnSuccess ==
  (/\ NoOverrideCall
   /\ TriggerSettled
   /\ triggerResult.kind = "resolved"
   /\ triggerResult.response.ok) => trig.outcome \in SuccessOutcomes

\* the isMutating useMutation returns: the one of useSWRMutation
isMutating == trig # NoTrigger /\ trig.mutating

\* the transport call of a trigger call is issued and trigger has not settled
TriggerInFlight == mpc \in {"fetching", "overrideFetching"}

\* C32: whenever a trigger call of the instance is in flight, with or without
\* an overrideConfig, isMutating is true.
C32_MutatingWhileInFlight == TriggerInFlight => isMutating

(***************************************************************************)
(* middleware.ts: retryMiddleware.  One request of a hook that uses the    *)
(* middleware and keeps failing.  The cache engine (swr) calls             *)
(* onErrorRetry after each failure with a retry count one higher than the  *)
(* count of the revalidation that failed, and the revalidation the         *)
(* middleware schedules carries the count it was given.                    *)
(***************************************************************************)
MaxRetries == 3       \* largest maxRetries option
DEFAULT_BASE_DELAY == 1000
DEFAULT_MAX_DELAY == 30000

BaseDelays == {0, 700, DEFAULT_BASE_DELAY}
MaxDelays == {0, 1500, DEFAULT_MAX_DELAY}
RetryOptionSets ==
  [maxRetries : 0..MaxRetries, baseDelay : BaseDelays, maxDelay : MaxDelays]

\* error.status of the errors a request fails with: a raw error has none
RetryStatuses == {None, Some(399), Some(400), Some(404), Some(499), Some(500)}
StatusOf(error) == IF "status" \in DOMAIN error THEN error.status ELSE None

RECURSIVE Pow2(_)
Pow2(n) == IF n = 0 THEN 1 ELSE 2 * Pow2(n - 1)
Min(a, b) == IF a <= b THEN a ELSE b

\* baseDelay * Math.pow(2, retryCount), without the cap
BackoffDelay_Uncapped(options, retryCount) ==
  options.baseDelay * Pow2(retryCount)

\* Math.min(baseDelay * Math.pow(2, retryCount), maxDelay)
BackoffDelay(options, retryCount) ==
  Min(options.baseDelay * Pow2(retryCount), options.maxDelay)

\* error.status && error.status >= 400 && error.status < 500
IsClientStatus(status) ==
  status # None /\ status[1] # 0 /\ status[1] >= 400 /\ status[1] < 500

\* onErrorRetry: the delay of the revalidation it schedules, if any
onErrorRetry(options, status, retryCount) ==
  IF retryCount >= options.maxRetries THEN None
  ELSE IF IsClientStatus(status) THEN None
  ELSE Some(BackoffDelay(options, retryCount))

InitRetry ==
  /\ IdleProvider
  /\ IdleCall
  /\ util = NoUtil
  /\ IdleMutation
  /\ mock = NoHook
  /\ storage = NoHook
  /\ infinite = NoHook
  /\ \E options \in RetryOptionSets :
       retry = [pc |-> "fetching", options |-> options, retryCount |-> 0,
                scheduled |-> <<>>, last |-> None]

\* the request fails: the engine calls onErrorRetry
RequestFails ==
  /\ retry.pc = "fetching"
  /\ \E status \in RetryStatuses :
       LET retryCount == retry.retryCount + 1
           delay == onErrorRetry(retry.options, status, retryCount)
       IN  retry' = [retry EXCEPT
                       !.pc = IF delay = None THEN "stopped" ELSE "waiting",
                       !.retryCount = retryCount,
                       !.scheduled = IF delay = None THEN @
                                     ELSE Append(@, delay[1]),
                       !.last = Some([status |-> status,
                                      retryCount |-> retryCount,
                                      delay |-> delay])]
  /\ UNCHANGED <<provider, call, util, mutation, mock, storage, infinite>>

\* the timer of setTimeout(() => revalidate(opts), delay) fires
RetryFires ==
  /\ retry.pc = "waiting"
  /\ retry' = [retry EXCEPT !.pc = "fetching"]
  /\ UNCHANGED <<provider, call, util, mutation, mock, storage, infinite>>

\* the request succeeds
RequestSucceeds ==
  /\ retry.pc = "fetching"
  /\ retry' = [retry EXCEPT !.pc = "stopped"]
  /\ UNCHANGED <<provider, call, util, mutation, mock, storage, infinite>>

NextRetry ==
  \/ RequestFails
  \/ RetryFires
  \/ RequestSucceeds

SpecRetry == InitRetry /\ [][NextRetry]_vars

\* the delay the claim gives for a retry
ClaimedDelay(baseDelay, maxDelay, retryCount) ==
  IF baseDelay * (2 ^ retryCount) <= maxDelay
    THEN baseDelay * (2 ^ retryCount) ELSE maxDelay

\* C35: onErrorRetry schedules nothing when retryCount >= maxRetries or the
\* status of the error is in [400,500), and otherwise one revalidation after
\* min(baseDelay * 2^retryCount, maxDelay); the delay never exceeds maxDelay
\* and never decreases from one retry to the next, and at most maxRetries
\* retries are scheduled for one failing request.
C35_RetryBackoff ==
  retry # NoHook =>
    /\ retry.last # None =>
         LET l == retry.last[1]
             o == retry.options
             client == l.status # None /\ l.status[1] \in 400..499
         IN  /\ (l.retryCount >= o.maxRetries \/ client) => l.delay = None
             /\ ~(l.retryCount >= o.maxRetries \/ client) =>
                  l.delay = Some(ClaimedDelay(o.baseDelay, o.maxDelay,
                                              l.retryCount))
             /\ l.delay = None => retry.pc = "stopped"
             /\ l.delay # None =>
                  /\ retry.pc \in {"waiting", "fetching", "stopped"}
                  /\ retry.scheduled[Len(retry.scheduled)] = l.delay[1]
    /\ \A i \in 1..Len(retry.scheduled) :
         /\ retry.scheduled[i] <= retry.options.maxDelay
         /\ i > 1 => retry.scheduled[i - 1] <= retry.scheduled[i]
    /\ Len(retry.scheduled) <= retry.options.maxRetries

\* a request that failed three times and was retried twice, the second
\* delay being capped
C35_Witness ==
  /\ retry # NoHook
  /\ retry.options = [maxRetries |-> 3, baseDelay |-> 700, maxDelay |-> 1500]
  /\ retry.scheduled = <<1400, 1500>>
  /\ retry.pc = "stopped"
  /\ retry.last[1].retryCount = 3

\* C34: when a request made through createFetcher fails with a status in
\* [400,500), the error the Fetcher rejects with, which is the one handed to
\* onErrorRetry, carries that status, so that no retry is scheduled for it.
C34_NoRetryOnClientError ==
  (/\ Settled
   /\ Rejected
   /\ TransportResponded
   /\ transport.status >= 400
   /\ transport.status < 500) =>
    /\ StatusOf(result.error) = Some(transport.status)
    /\ \A options \in RetryOptionSets, retryCount \in 1..MaxRetries :
         onErrorRetry(options, StatusOf(result.error), retryCount) = None

(***************************************************************************)
(* swrkit.ts: createFailingMockFetcher.  One fetcher with its counter and  *)
(* its invocations, which may overlap: an invocation counts itself, waits  *)
(* for its timer and then compares the counter with failAfter.             *)
(***************************************************************************)
MaxFailAfter == 2    \* largest failAfter
MaxMockCalls == 4    \* invocations of the fetcher

SuccessData == {"b1", "b2"}

MockOk(data) ==
  [ok |-> TRUE, problem |-> Null, originalError |-> NoError, data |-> data,
   status |-> Some(200), headers |-> TRUE]
MockFailed ==
  [ok |-> FALSE, problem |-> "SERVER_ERROR",
   originalError |-> ErrorWithMessage("Mock error"), data |-> Undefined,
   status |-> Some(500), headers |-> TRUE]

InitMock ==
  /\ IdleProvider
  /\ IdleCall
  /\ util = NoUtil
  /\ IdleMutation
  /\ retry = NoHook
  /\ storage = NoHook
  /\ infinite = NoHook
  /\ \E data \in SuccessData, n \in 0..MaxFailAfter :
       mock = [pc |-> "created", successData |-> data, failAfter |-> n,
               requestCount |-> 0, calls |-> <<>>]

\* the fetcher is called: requestCount++ and the timer is set
MockInvoke ==
  /\ mock # NoHook
  /\ Len(mock.calls) < MaxMockCalls
  /\ mock' = [mock EXCEPT !.requestCount = @ + 1,
                          !.calls = Append(@, [pc |-> "waiting", read |-> 0,
                                               response |-> NoResp])]
  /\ UNCHANGED <<provider, call, util, mutation, retry, storage, infinite>>

\* the invocations whose timer has not fired; equal timers fire in the
\* order they were set
Waiting == {i \in 1..Len(mock.calls) : mock.calls[i].pc = "waiting"}

\* the timer of the earliest waiting invocation fires and it goes on; read
\* is the value of requestCount it compares with failAfter
MockResume ==
  /\ mock # NoHook
  /\ Waiting # {}
  /\ LET i == CHOOSE j \in Waiting : \A l \in Waiting : j <= l
         response == IF mock.requestCount > mock.failAfter
                       THEN MockFailed ELSE MockOk(mock.successData)
     IN  mock' = [mock EXCEPT !.calls[i] = [pc |-> "done",
                                            read |-> mock.requestCount,
                                            response |-> response]]
  /\ UNCHANGED <<provider, call, util, mutation, retry, storage, infinite>>

NextMock ==
  \/ MockInvoke
  \/ MockResume

SpecMock == InitMock /\ [][NextMock]_vars

\* C37: the k-th invocation in call order, overlapping or not, resolves with
\* an ok Response carrying the data iff k <= failAfter, and every later one
\* with ok=false, SERVER_ERROR and status 500; the counter counts the
\* invocations and is never reset.
C37_FailsAfterN ==
  mock # NoHook =>
    /\ mock.requestCount = Len(mock.calls)
    /\ \A i \in 1..Len(mock.calls) :
         mock.calls[i].pc = "done" =>
           LET r == mock.calls[i].response
           IN  /\ r.ok <=> i <= mock.failAfter
               /\ r.ok => r.data = mock.successData
               /\ ~r.ok => r.problem = "SERVER_ERROR" /\ r.status = Some(500)

(***************************************************************************)
(* middleware.ts: localStorageMiddleware.  One hook that uses the          *)
(* middleware, the entry of localStorage under its key, and the clock.     *)
(* The body of the middleware runs at every render of the hook, its effect *)
(* after a render in which swr.data differs from the data of the effect's  *)
(* last run.  useSWRNext (swr) returns the fetched data once there is      *)
(* some, and fallbackData before.                                          *)
(***************************************************************************)
MaxTtl == 1     \* largest ttl option
MaxNow == 3     \* last instant of the clock

StartNow == 1
NoEntry == [kind |-> "none"]
CorruptEntry == [kind |-> "corrupt"]
\* JSON.stringify({ data, timestamp }) under `${key}:${String(swrKey)}`
StoredEntry(data, timestamp) ==
  [kind |-> "entry", data |-> data, timestamp |-> timestamp]

\* config.fallbackData of the hook: not given, or given
ExplicitFallbacks == {None, Some("explicit")}

\* Date.now() - parsed.timestamp >= ttl
Expired_AtTtl(entry, now, ttl) == now - entry.timestamp >= ttl

\* Date.now() - parsed.timestamp > ttl
Expired(entry, now, ttl) == now - entry.timestamp > ttl

\* the function called for fallbackData: what it returns and what it leaves
\* in storage
LoadFromStorage(entry, now, ttl) ==
  IF entry = NoEntry THEN [value |-> None, entry |-> entry]
  ELSE IF entry = CorruptEntry THEN [value |-> None, entry |-> entry]
  ELSE IF Expired(entry, now, ttl) THEN [value |-> None, entry |-> NoEntry]
  ELSE [value |-> Some(entry.data), entry |-> entry]

InitStorage ==
  /\ IdleProvider
  /\ IdleCall
  /\ util = NoUtil
  /\ IdleMutation
  /\ retry = NoHook
  /\ mock = NoHook
  /\ infinite = NoHook
  /\ \E ttl \in 0..MaxTtl, explicit \in ExplicitFallbacks,
        entry \in {NoEntry, CorruptEntry}
                  \cup {StoredEntry("old", t) : t \in 0..StartNow} :
       storage = [pc |-> "unmounted", ttl |-> ttl, explicit |-> explicit,
                  now |-> StartNow, entry |-> entry, fetched |-> Undefined,
                  data |-> Undefined, deps |-> None, looked |-> FALSE,
                  pre |-> NoEntry, at |-> StartNow, supplied |-> None,
                  effect |-> None]

\* the hook renders: config?.fallbackData ?? (() => { ... })() and useSWRNext
StorageRender ==
  /\ storage # NoHook
  /\ storage.pc \in {"unmounted", "committed"}
  /\ LET looked == storage.explicit = None
         loaded == LoadFromStorage(storage.entry, storage.now, storage.ttl)
         fallbackData == IF looked THEN loaded.value ELSE storage.explicit
         data == IF storage.fetched # Undefined THEN storage.fetched
                 ELSE IF fallbackData # None THEN fallbackData[1]
                 ELSE Undefined
     IN  storage' = [storage EXCEPT
                       !.pc = "rendered",
                       !.looked = looked,
                       !.pre = storage.entry,
                       !.at = storage.now,
                       !.entry = IF looked THEN loaded.entry ELSE @,
                       !.supplied = fallbackData,
                       !.data = data]
  /\ UNCHANGED <<provider, call, util, mutation, retry, mock, infinite>>

\* the effect of the render: nothing when swr.data is as at its last run or
\* undefined, localStorage.setItem otherwise, which may throw
StorageEffect ==
  /\ storage # NoHook
  /\ storage.pc = "rendered"
  /\ \E throws \in BOOLEAN :
       LET runs == storage.deps # Some(storage.data)
           saves == runs /\ storage.data # Undefined
       IN  storage' = [storage EXCEPT
                         !.pc = "committed",
                         !.deps = Some(storage.data),
                         !.entry = IF saves /\ ~throws
                                     THEN StoredEntry(storage.data, storage.now)
                                     ELSE @,
                         !.effect = IF saves
                                      THEN Some([data |-> storage.data,
                                                 at |-> storage.now,
                                                 threw |-> throws])
                                      ELSE None]
  /\ UNCHANGED <<provider, call, util, mutation, retry, mock, infinite>>

\* the request of the hook resolves
StorageDataArrives ==
  /\ storage # NoHook
  /\ storage.pc = "committed"
  /\ storage.fetched = Undefined
  /\ storage' = [storage EXCEPT !.fetched = "new"]
  /\ UNCHANGED <<provider, call, util, mutation, retry, mock, infinite>>

\* time passes
StorageTick ==
  /\ storage # NoHook
  /\ storage.now < MaxNow
  /\ storage' = [storage EXCEPT !.now = @ + 1]
  /\ UNCHANGED <<provider, call, util, mutation, retry, mock, infinite>>

NextStorage ==
  \/ StorageRender
  \/ StorageEffect
  \/ StorageDataArrives
  \/ StorageTick

SpecStorage == InitStorage /\ [][NextStorage]_vars

\* the hook has rendered; the entry the render found and its age
Rendered == storage # NoHook /\ storage.pc = "rendered"
FoundEntry == storage.pre.kind = "entry"
Age == storage.at - storage.pre.timestamp
SuppliedFromStorage ==
  /\ storage.looked
  /\ storage.supplied # None

\* a stored entry is supplied only without explicit fallbackData and with
\* an age of at most ttl
SuppliedOnlyFresh ==
  (Rendered /\ SuppliedFromStorage) =>
    /\ storage.explicit = None
    /\ FoundEntry
    /\ Age <= storage.ttl
    /\ storage.supplied = Some(storage.pre.data)

\* without explicit fallbackData an entry of age at most ttl is supplied
\* and stays in storage
FreshIsSupplied ==
  (Rendered /\ storage.looked /\ FoundEntry /\ Age <= storage.ttl) =>
    /\ storage.supplied = Some(storage.pre.data)
    /\ storage.entry = storage.pre

\* the effect of the last render had a defined data value to save
Committed == storage # NoHook /\ storage.pc = "committed"
NewData == Committed /\ storage.effect # None

\* C38 as stated: a stored entry is supplied as fallbackData only without
\* explicit fallbackData and with an age of at most ttl; an entry older than
\* ttl is removed from storage and never supplied; every defined data value
\* is written to storage with the current timestamp.
C38_StorageFallback ==
  /\ SuppliedOnlyFresh
  /\ (Rendered /\ FoundEntry /\ Age > storage.ttl) =>
       /\ storage.entry = NoEntry
       /\ ~SuppliedFromStorage
  /\ NewData =>
       storage.entry = StoredEntry(storage.data, storage.effect[1].at)

\* C38: a stored entry is supplied as fallbackData only without explicit
\* fallbackData and with an age of at most ttl; an entry older than ttl is
\* never supplied, and is removed from storage when the middleware looks it
\* up (no explicit fallbackData); every defined data value is written to
\* storage with the current timestamp unless storage rejects the write.
\* An entry of age at most ttl is supplied when it is looked up.
C38_StorageFallbackLookedUp ==
  /\ SuppliedOnlyFresh
  /\ FreshIsSupplied
  /\ (Rendered /\ FoundEntry /\ Age > storage.ttl) =>
       /\ storage.looked => storage.entry = NoEntry
       /\ ~SuppliedFromStorage
  /\ (NewData /\ ~storage.effect[1].threw) =>
       storage.entry = StoredEntry(storage.data, storage.effect[1].at)

\* an entry of age ttl is supplied and written back with a new timestamp,
\* and the same entry, older than ttl at a later render, is removed
C38_Witness ==
  /\ Rendered
  /\ storage.ttl = 1
  /\ storage.pre = StoredEntry("old", 1)
  /\ storage.at = 3
  /\ storage.entry = NoEntry
  /\ storage.supplied = None
  /\ storage.effect = Some([data |-> "old", at |-> 1, threw |-> FALSE])

(***************************************************************************)
(* swrkit.ts: useInfiniteScroll.  One hook instance: pageSize, and size,   *)
(* data and isValidating of useSWRInfinite (swr), which loads pages until  *)
(* it has size of them or getKey returns null.  A page is a list, an       *)
(* object with or without a data field, null, or some other value.         *)
(***************************************************************************)
MaxPageSize == 2   \* largest pageSize option
MaxItems == 2      \* items of a list
MaxSize == 3       \* pages asked for

ListPage(n) == [kind |-> "list", items |-> n]
ObjectPage(fields) == [kind |-> "object", fields |-> fields]
NullPage == [kind |-> "null"]
OtherPage == [kind |-> "string"]
Pages ==
  {ListPage(n) : n \in 0..MaxItems}
  \cup {ObjectPage([data |-> ListPage(n)]) : n \in 0..MaxItems}
  \cup {ObjectPage([data |-> OtherPage]), ObjectPage([total |-> OtherPage]),
        NullPage, OtherPage}

\* items.length > pageSize
EnoughItems_Strict(n, pageSize) == n > pageSize

\* items.length >= pageSize
EnoughItems(n, pageSize) == n >= pageSize

\* the hasMore memo; data is None while useSWRInfinite has no data
hasMore(data, pageSize) ==
  IF data = None THEN FALSE
  ELSE IF Len(data[1]) = 0 THEN FALSE
  ELSE LET lastPage == data[1][Len(data[1])]
       IN  IF lastPage = NullPage THEN FALSE
           ELSE IF lastPage.kind = "list"
             THEN EnoughItems(lastPage.items, pageSize)
           ELSE IF lastPage.kind = "object" /\ "data" \in DOMAIN lastPage.fields
             THEN /\ lastPage.fields.data.kind = "list"
                  /\ EnoughItems(lastPage.fields.data.items, pageSize)
           ELSE TRUE

InitInfinite ==
  /\ IdleProvider
  /\ IdleCall
  /\ util = NoUtil
  /\ IdleMutation
  /\ retry = NoHook
  /\ mock = NoHook
  /\ storage = NoHook
  /\ \E pageSize \in 0..MaxPageSize :
       infinite = [pc |-> "mounted", pageSize |-> pageSize, size |-> 1,
                   data |-> None, isValidating |-> TRUE, lastCall |-> None]

\* loadMore(): setSize(size + 1) starts the load of the next page
LoadMore ==
  /\ infinite # NoHook
  /\ infinite.size < MaxSize
  /\ LET more == hasMore(infinite.data, infinite.pageSize)
         grows == ~infinite.isValidating /\ more
     IN  infinite' = [infinite EXCEPT
                        !.size = IF grows THEN @ + 1 ELSE @,
                        !.isValidating = IF grows THEN TRUE ELSE @,
                        !.lastCall = Some([size |-> infinite.size,
                                           isValidating |-> infinite.isValidating,
                                           hasMore |-> more])]
  /\ UNCHANGED <<provider, call, util, mutation, retry, mock, storage>>

\* the load ends: the pages already there and the new ones, size of them
\* unless getKey returned null before
PagesLoaded ==
  /\ infinite # NoHook
  /\ infinite.isValidating
  /\ LET old == IF infinite.data = None THEN <<>> ELSE infinite.data[1]
     IN  \E new \in SeqsUpTo(Pages, infinite.size - Len(old)) :
           infinite' = [infinite EXCEPT !.data = Some(old \o new),
                                        !.isValidating = FALSE]
  /\ UNCHANGED <<provider, call, util, mutation, retry, mock, storage>>

\* a revalidation starts (focus, reconnect, refresh())
Revalidate ==
  /\ infinite # NoHook
  /\ ~infinite.isValidating
  /\ infinite' = [infinite EXCEPT !.isValidating = TRUE]
  /\ UNCHANGED <<provider, call, util, mutation, retry, mock, storage>>

NextInfinite ==
  \/ LoadMore
  \/ PagesLoaded
  \/ Revalidate

SpecInfinite == InitInfinite /\ [][NextInfinite]_vars

\* the list whose length decides, when the last page has one
NoData == infinite.data = None \/ Len(infinite.data[1]) = 0
LastPage == infinite.data[1][Len(infinite.data[1])]
LastList ==
  IF LastPage.kind = "list" THEN Some(LastPage.items)
  ELSE IF /\ LastPage.kind = "object"
          /\ "data" \in DOMAIN LastPage.fields
          /\ LastPage.fields.data.kind = "list"
    THEN Some(LastPage.fields.data.items)
  ELSE None

\* C39: loadMore raises size by exactly one when no page is validating and
\* hasMore is true, and leaves it otherwise; hasMore is false without data
\* and when the last page is a list, or an object whose data field is a
\* list, of fewer than pageSize items, and true when that list has at least
\* pageSize items.
C39_LoadMoreAndHasMore ==
  infinite # NoHook =>
    /\ infinite.lastCall # None =>
         LET c == infinite.lastCall[1]
         IN  infinite.size =
               IF ~c.isValidating /\ c.hasMore THEN c.size + 1 ELSE c.size
    /\ NoData => ~hasMore(infinite.data, infinite.pageSize)
    /\ (~NoData /\ LastList # None) =>
         (hasMore(infinite.data, infinite.pageSize)
            <=> LastList[1] >= infinite.pageSize)

\* loadMore has added a page after a full page of two items
C39_Witness ==
  /\ infinite # NoHook
  /\ infinite.pageSize = 2
  /\ infinite.lastCall = Some([size |-> 1, isValidating |-> FALSE,
                               hasMore |-> TRUE])
  /\ infinite.size = 2
  /\ infinite.data = Some(<<ListPage(2), ListPage(1)>>)
  /\ ~hasMore(infinite.data, infinite.pageSize)

====
